---- MODULE Spec2Model ----
(***************************************************************************)
(* A model of the KAVM adaptor layer: the transaction adaptor              *)
(* (kavm/adaptors/algod_transaction.py), the term factory                  *)
(* (kavm/kast/factory.py) and the toolchain driver (kavm/kompile.py).      *)
(*                                                                         *)
(* Python strings and K tokens are sequences of one-character strings,     *)
(* bytes are sequences of numbers 0..255, Python values carry their type   *)
(* ([py |-> "int", v |-> 3]) and K terms carry their node kind.  A call    *)
(* either returns (Ok) or raises (Raise).                                  *)
(***************************************************************************)
EXTENDS Integers, Sequences, FiniteSets, TLC

VARIABLES
    pc,      \* where the caller stands: "idle", or the call that has just been made
    txn,     \* the transaction handed to transaction_k_term
    kterm,   \* the result of transaction_k_term, or the term handed to from_k_cell
    parsed,  \* the result of from_k_cell
    fcall,   \* the term factory's call: the constructor, the record, the overrides
    fcell,   \* the result of the term factory's call
    kopts,   \* the options kompile was called with
    kruns,   \* the external processes kompile has started, in order
    kresult, \* the result of kompile
    sdict,   \* the dictionary handed to sanitize_byte_fields, as it was handed
    sresult, \* the dictionary sanitize_byte_fields returned
    txns,    \* the KAVMTransaction objects created, in order
    heap,    \* the KAVMApplyData objects: 0 is the class attribute's
    resp,    \* the latest response of each transaction that was asked for one
    called,  \* the transaction pending_transaction_responce was last called on
    mutated  \* the transactions through whose response the caller changed a list

sanitizeVars == <<sdict, sresult>>

applyVars == <<txns, heap, resp, called, mutated>>

vars ==
    <<pc, txn, kterm, parsed, fcall, fcell, kopts, kruns, kresult, sdict, sresult,
      txns, heap, resp, called, mutated>>

(***************************************************************************)
(* Bounds of the model.                                                    *)
(***************************************************************************)
\* numbers drawn for the integer fields are 0 and 10 .. 9 + MaxInt
MaxInt == 1

IntVals == {0} \cup {9 + i : i \in 1..MaxInt}

(***************************************************************************)
(* Results of a call.                                                      *)
(***************************************************************************)
Ok(v) == [exc |-> "none", val |-> v]

Raise(e, m) == [exc |-> e, msg |-> m]

IsOk(r) == r.exc = "none"

NoCall == [exc |-> "nocall"]

\* the first result of the sequence rs that is a raise (rs has one)
RECURSIVE FirstRaise(_)
FirstRaise(rs) == IF ~IsOk(Head(rs)) THEN Head(rs) ELSE FirstRaise(Tail(rs))

AllOk(rs) == \A i \in 1..Len(rs) : IsOk(rs[i])

(***************************************************************************)
(* Python values and the string operations the code uses.                  *)
(***************************************************************************)
PyNone == [py |-> "None"]

PyInt(n) == [py |-> "int", v |-> n]

PyStr(s) == [py |-> "str", v |-> s]

PyBytes(b) == [py |-> "bytes", v |-> b]

PyList(l) == [py |-> "list", v |-> l]

QUOTE == "\""

APOS == "'"

\* str.strip(ch): drop every leading and trailing ch
RECURSIVE LStrip(_, _)
LStrip(s, ch) == IF Len(s) > 0 /\ Head(s) = ch THEN LStrip(Tail(s), ch) ELSE s

RECURSIVE RStrip(_, _)
RStrip(s, ch) ==
    IF Len(s) > 0 /\ s[Len(s)] = ch THEN RStrip(SubSeq(s, 1, Len(s) - 1), ch) ELSE s

Strip(s, ch) == RStrip(LStrip(s, ch), ch)

Digits == <<"0", "1", "2", "3", "4", "5", "6", "7", "8", "9">>

\* str(n) for n >= 0
RECURSIVE IntToStr(_)
IntToStr(n) ==
    IF n < 10 THEN <<Digits[n + 1]>>
    ELSE IntToStr(n \div 10) \o <<Digits[(n % 10) + 1]>>

IsDigit(c) == \E i \in 1..10 : Digits[i] = c

DigitVal(c) == (CHOOSE i \in 1..10 : Digits[i] = c) - 1

IsIntLiteral(s) == Len(s) > 0 /\ \A i \in 1..Len(s) : IsDigit(s[i])

\* int(s) for a string of decimal digits
RECURSIVE StrToInt(_)
StrToInt(s) ==
    IF Len(s) = 0 THEN 0
    ELSE 10 * StrToInt(SubSeq(s, 1, Len(s) - 1)) + DigitVal(s[Len(s)])

\* int(r) where r is the result of reading a token's text
PyIntOf(r) ==
    IF ~IsOk(r) THEN r
    ELSE IF IsIntLiteral(r.val) THEN Ok(StrToInt(r.val))
    ELSE Raise("ValueError", "invalid literal for int()")

(***************************************************************************)
(* base64 (standard alphabet, "=" padding).                                *)
(***************************************************************************)
B64Chars ==
    <<"A", "B", "C", "D", "E", "F", "G", "H", "I", "J", "K", "L", "M", "N", "O", "P",
      "Q", "R", "S", "T", "U", "V", "W", "X", "Y", "Z", "a", "b", "c", "d", "e", "f",
      "g", "h", "i", "j", "k", "l", "m", "n", "o", "p", "q", "r", "s", "t", "u", "v",
      "w", "x", "y", "z", "0", "1", "2", "3", "4", "5", "6", "7", "8", "9", "+", "/">>

B64Char(n) == B64Chars[n + 1]

B64Index(c) == (CHOOSE i \in 1..Len(B64Chars) : B64Chars[i] = c) - 1

RECURSIVE B64Encode(_)
B64Encode(b) ==
    IF Len(b) = 0 THEN <<>>
    ELSE IF Len(b) = 1 THEN
        <<B64Char(b[1] \div 4), B64Char((b[1] % 4) * 16), "=", "=">>
    ELSE IF Len(b) = 2 THEN
        <<B64Char(b[1] \div 4), B64Char((b[1] % 4) * 16 + b[2] \div 16),
          B64Char((b[2] % 16) * 4), "=">>
    ELSE
        <<B64Char(b[1] \div 4), B64Char((b[1] % 4) * 16 + b[2] \div 16),
          B64Char((b[2] % 16) * 4 + b[3] \div 64), B64Char(b[3] % 64)>>
        \o B64Encode(SubSeq(b, 4, Len(b)))

\* b64decode of well-formed base64 text (length a multiple of four)
RECURSIVE B64Decode(_)
B64Decode(s) ==
    IF Len(s) < 4 THEN <<>>
    ELSE LET i1 == B64Index(s[1])
             i2 == B64Index(s[2])
             b1 == i1 * 4 + i2 \div 16
         IN  IF s[3] = "=" THEN <<b1>>
             ELSE LET i3 == B64Index(s[3])
                      b2 == (i2 % 16) * 16 + i3 \div 4
                  IN  IF s[4] = "=" THEN <<b1, b2>>
                      ELSE <<b1, b2, (i3 % 4) * 64 + B64Index(s[4])>>
                           \o B64Decode(SubSeq(s, 5, Len(s)))

(***************************************************************************)
(* K terms (pyk.kast): tokens, applications, variables; substitutions.     *)
(***************************************************************************)
KToken(token, sort) == [node |-> "KToken", token |-> token, sort |-> sort]

KApply(label, args) == [node |-> "KApply", label |-> label, args |-> args]

KVariable(name) == [node |-> "KVariable", name |-> name]

IsKToken(t) == t.node = "KToken"

intToken(i) == KToken(IntToStr(i), "Int")

stringToken(s) == KToken(<<QUOTE>> \o s \o <<QUOTE>>, "String")

\* a term with no variable left in it
RECURSIVE IsConcrete(_)
IsConcrete(t) ==
    /\ t.node # "KVariable"
    /\ t.node = "KApply" => \A i \in 1..Len(t.args) : IsConcrete(t.args[i])

\* Subst.__call__ on one term: every variable the substitution defines is replaced
RECURSIVE SubstTerm(_, _)
SubstTerm(s, t) ==
    IF t.node = "KVariable" THEN (IF t.name \in DOMAIN s THEN s[t.name] ELSE t)
    ELSE IF t.node = "KApply"
         THEN KApply(t.label, [i \in 1..Len(t.args) |-> SubstTerm(s, t.args[i])])
    ELSE t

\* the substitution with no entry
EmptySubst == [k \in {} |-> KVariable(k)]

\* Subst.compose: self.compose(other) holds other's entries, self applied to each
\* value, and self's entries for the names other does not define
Compose(self, other) ==
    [k \in DOMAIN other \cup DOMAIN self |->
        IF k \in DOMAIN other THEN SubstTerm(self, other[k]) ELSE self[k]]

\* Subst.apply on a configuration, held as the mapping of its cells
SubstApply(s, config) == [c \in DOMAIN config |-> SubstTerm(s, config[c])]

\* split_config_from: the flat mapping from cell names to the cells' contents
SplitConfigFrom(config) == config

(***************************************************************************)
(* kavm.pyk_utils: Python values as TValue terms.                          *)
(***************************************************************************)
tvalue(value) ==
    IF value.py = "int" THEN intToken(value.v)
    ELSE IF value.py = "str" THEN stringToken(value.v)
    ELSE stringToken(B64Encode(value.v))

NoTValue == KApply("NoTValue", <<>>)

maybe_tvalue(value) == IF value.py = "None" THEN NoTValue ELSE tvalue(value)

tvalue_list(l) ==
    IF Len(l) = 0 THEN KApply(".TValueList", <<>>)
    ELSE KApply("TValueList", [i \in 1..Len(l) |-> tvalue(l[i])])

(***************************************************************************)
(* algosdk: transaction objects, as the constructors leave them.           *)
(***************************************************************************)
PAYMENT_TXN == <<"p", "a", "y">>

ASSETTRANSFER_TXN == <<"a", "x", "f", "e", "r">>

APPCALL_TXN == <<"a", "p", "p", "l">>

KEYREG_TXN == <<"k", "e", "y", "r", "e", "g">>

ASSETCONFIG_TXN == <<"a", "c", "f", "g">>

ASSETFREEZE_TXN == <<"a", "f", "r", "z">>

UNKNOWN_TXN == <<"u", "n", "k", "n", "o", "w", "n">>

\* bool(value)
Truthy(value) ==
    IF value.py = "None" THEN FALSE
    ELSE IF value.py = "int" THEN value.v # 0
    ELSE IF value.py = "bool" THEN value.v
    ELSE IF value.py \in {"str", "bytes", "list"} THEN Len(value.v) > 0
    ELSE TRUE

SuggestedParams(fee, first, last, gh) ==
    [fee |-> fee, first |-> first, last |-> last, gh |-> gh, flat_fee |-> TRUE]

StateSchema(num_uints, num_byte_slices) ==
    [py |-> "StateSchema", num_uints |-> num_uints, num_byte_slices |-> num_byte_slices]

\* ApplicationCallTxn.state_schema: a false or all-zero schema is kept as None
state_schema(schema) ==
    IF schema.py = "None" \/ (schema.num_uints = 0 /\ schema.num_byte_slices = 0)
    THEN PyNone ELSE schema

\* ApplicationCallTxn.teal_bytes: a false program is kept as None
teal_bytes(teal) == IF Truthy(teal) THEN teal ELSE PyNone

\* a transaction of a type this layer builds no fields for
Transaction(sender, sp, txn_type) ==
    [type |-> PyStr(txn_type), sender |-> PyStr(sender), fee |-> PyInt(sp.fee),
     first_valid_round |-> PyInt(sp.first), last_valid_round |-> PyInt(sp.last),
     genesis_hash |-> sp.gh, genesis_id |-> PyNone, group |-> PyNone,
     lease |-> PyNone, note |-> PyNone, rekey_to |-> PyNone]

PaymentTxn(sender, sp, receiver, amt, close_remainder_to) ==
    [type |-> PyStr(PAYMENT_TXN), sender |-> PyStr(sender), fee |-> PyInt(sp.fee),
     first_valid_round |-> PyInt(sp.first), last_valid_round |-> PyInt(sp.last),
     genesis_hash |-> sp.gh, genesis_id |-> PyNone, group |-> PyNone,
     lease |-> PyNone, note |-> PyNone, rekey_to |-> PyNone,
     receiver |-> PyStr(receiver), amt |-> PyInt(amt),
     close_remainder_to |-> close_remainder_to]

AssetTransferTxn(sender, sp, receiver, amt, index) ==
    [type |-> PyStr(ASSETTRANSFER_TXN), sender |-> PyStr(sender), fee |-> PyInt(sp.fee),
     first_valid_round |-> PyInt(sp.first), last_valid_round |-> PyInt(sp.last),
     genesis_hash |-> sp.gh, genesis_id |-> PyNone, group |-> PyNone,
     lease |-> PyNone, note |-> PyNone, rekey_to |-> PyNone,
     receiver |-> PyStr(receiver), amount |-> PyInt(amt), index |-> PyInt(index),
     close_assets_to |-> PyNone, revocation_target |-> PyNone]

\* arrays holds app_args, accounts, foreign_apps and foreign_assets
ApplicationCallTxn(sender, sp, index, on_complete, local_schema, global_schema, approval_program, clear_program, arrays, extra_pages) ==
    [type |-> PyStr(APPCALL_TXN), sender |-> PyStr(sender), fee |-> PyInt(sp.fee),
     first_valid_round |-> PyInt(sp.first), last_valid_round |-> PyInt(sp.last),
     genesis_hash |-> sp.gh, genesis_id |-> PyNone, group |-> PyNone,
     lease |-> PyNone, note |-> PyNone, rekey_to |-> PyNone,
     index |-> PyInt(index), on_complete |-> on_complete,
     local_schema |-> state_schema(local_schema),
     global_schema |-> state_schema(global_schema),
     approval_program |-> teal_bytes(approval_program),
     clear_program |-> teal_bytes(clear_program),
     app_args |-> arrays.app_args, accounts |-> arrays.accounts,
     foreign_apps |-> arrays.foreign_apps, foreign_assets |-> arrays.foreign_assets,
     extra_pages |-> extra_pages]

\* OnComplete(n): the enumeration has the members 0 .. 5
OnComplete(r) ==
    IF ~IsOk(r) THEN r
    ELSE IF r.val \in 0..5 THEN Ok(PyInt(r.val))
    ELSE Raise("ValueError", "not a valid OnComplete")

(***************************************************************************)
(* transaction_k_term: a Transaction object to a K <transaction> cell.     *)
(***************************************************************************)
TransactionCells ==
    {"TXID_CELL", "FEE_CELL", "FIRSTVALID_CELL", "LASTVALID_CELL", "GENESISHASH_CELL",
     "GENESISID_CELL", "SENDER_CELL", "TXTYPE_CELL", "TYPEENUM_CELL", "GROUPIDX_CELL",
     "GROUPID_CELL", "LEASE_CELL", "NOTE_CELL", "REKEYTO_CELL",
     "RECEIVER_CELL", "AMOUNT_CELL", "CLOSEREMAINDERTO_CELL",
     "XFERASSET_CELL", "ASSETAMOUNT_CELL", "ASSETRECEIVER_CELL",
     "APPLICATIONID_CELL", "ONCOMPLETION_CELL", "ACCOUNTS_CELL",
     "APPROVALPROGRAM_CELL", "APPROVALPROGRAMSRC_CELL", "CLEARSTATEPROGRAM_CELL",
     "CLEARSTATEPROGRAMSRC_CELL", "APPLICATIONARGS_CELL", "FOREIGNAPPS_CELL",
     "FOREIGNASSETS_CELL", "GLOBALNUI_CELL", "GLOBALNBS_CELL", "LOCALNUI_CELL",
     "LOCALNBS_CELL", "EXTRAPROGRAMPAGES_CELL",
     "TXCONFIGASSET_CELL", "TXAPPLICATIONID_CELL", "INNERTXNS_CELL", "LOGSIZE_CELL",
     "LOGDATA_CELL", "TXSCRATCH_CELL", "TXNEXECUTIONCONTEXT_CELL", "RESUME_CELL"}

\* kavm.definition.empty_config(KSort('TransactionCell')): one variable per cell
empty_transaction_cell == [c \in TransactionCells |-> KVariable(c)]

\* free_vars of a configuration held as the mapping of its cells
free_vars(config) == {c \in DOMAIN config : ~IsConcrete(config[c])}

\* kavm.parse_teal('int 1')
parse_teal_int_1 == KApply("int", <<KToken(<<"1">>, "Int")>>)

txn_type_to_type_enum(txn_type) ==
    IF txn_type = UNKNOWN_TXN THEN Ok(0)
    ELSE IF txn_type = PAYMENT_TXN THEN Ok(1)
    ELSE IF txn_type = KEYREG_TXN THEN Ok(2)
    ELSE IF txn_type = ASSETCONFIG_TXN THEN Ok(3)
    ELSE IF txn_type = ASSETTRANSFER_TXN THEN Ok(4)
    ELSE IF txn_type = ASSETFREEZE_TXN THEN Ok(5)
    ELSE IF txn_type = APPCALL_TXN THEN Ok(6)
    ELSE Raise("ValueError", "unknown transaction type")

header_subst(t, type_enum) ==
    [FEE_CELL |-> maybe_tvalue(t.fee),
     FIRSTVALID_CELL |-> maybe_tvalue(t.first_valid_round),
     LASTVALID_CELL |-> maybe_tvalue(t.last_valid_round),
     GENESISHASH_CELL |-> maybe_tvalue(t.genesis_hash),
     GENESISID_CELL |-> maybe_tvalue(t.genesis_id),
     SENDER_CELL |-> KToken(Strip(t.sender.v, APOS), "TAddressLiteral"),
     TXTYPE_CELL |-> maybe_tvalue(t.type),
     TYPEENUM_CELL |-> maybe_tvalue(PyInt(type_enum)),
     GROUPIDX_CELL |-> maybe_tvalue(t.group),
     GROUPID_CELL |-> KToken(<<QUOTE, "0", QUOTE>>, "String"),
     LEASE_CELL |-> maybe_tvalue(t.lease),
     NOTE_CELL |-> maybe_tvalue(t.note),
     REKEYTO_CELL |-> maybe_tvalue(t.rekey_to),
     TXCONFIGASSET_CELL |-> tvalue(PyInt(0)),
     TXAPPLICATIONID_CELL |-> tvalue(PyInt(0)),
     INNERTXNS_CELL |-> KApply(".List", <<>>),
     LOGSIZE_CELL |-> tvalue(PyInt(0)),
     LOGDATA_CELL |-> tvalue_list(<<>>),
     RESUME_CELL |-> KToken(<<"f", "a", "l", "s", "e">>, "Bool"),
     TXSCRATCH_CELL |-> KApply(".Map", <<>>)]

payment_subst(t) ==
    [RECEIVER_CELL |-> KToken(Strip(t.receiver.v, APOS), "TAddressLiteral"),
     AMOUNT_CELL |-> maybe_tvalue(t.amt),
     CLOSEREMAINDERTO_CELL |-> maybe_tvalue(t.close_remainder_to)]

appcall_subst(t) ==
    [APPLICATIONID_CELL |-> maybe_tvalue(t.index),
     ONCOMPLETION_CELL |->
        IF t.on_complete.py # "None" THEN maybe_tvalue(t.on_complete)
        ELSE maybe_tvalue(PyInt(0)),
     ACCOUNTS_CELL |->
        IF t.accounts.py # "None" THEN tvalue_list(t.accounts.v) ELSE tvalue_list(<<>>),
     APPROVALPROGRAM_CELL |-> maybe_tvalue(t.approval_program),
     APPROVALPROGRAMSRC_CELL |->
        IF Truthy(t.approval_program) THEN maybe_tvalue(t.approval_program)
        ELSE parse_teal_int_1,
     CLEARSTATEPROGRAM_CELL |-> maybe_tvalue(t.clear_program),
     CLEARSTATEPROGRAMSRC_CELL |->
        IF Truthy(t.clear_program) THEN maybe_tvalue(t.clear_program)
        ELSE parse_teal_int_1,
     APPLICATIONARGS_CELL |->
        tvalue_list(IF Truthy(t.app_args) THEN t.app_args.v ELSE <<>>),
     FOREIGNAPPS_CELL |->
        tvalue_list(IF Truthy(t.foreign_apps) THEN t.foreign_apps.v ELSE <<>>),
     FOREIGNASSETS_CELL |->
        IF t.foreign_assets.py # "None" THEN tvalue_list(t.foreign_assets.v)
        ELSE tvalue_list(<<>>),
     GLOBALNUI_CELL |->
        IF t.global_schema.py # "None" THEN maybe_tvalue(PyInt(t.global_schema.num_uints))
        ELSE maybe_tvalue(PyInt(0)),
     GLOBALNBS_CELL |->
        IF t.global_schema.py # "None"
        THEN maybe_tvalue(PyInt(t.global_schema.num_byte_slices))
        ELSE maybe_tvalue(PyInt(0)),
     LOCALNUI_CELL |->
        IF t.local_schema.py # "None" THEN maybe_tvalue(PyInt(t.local_schema.num_uints))
        ELSE maybe_tvalue(PyInt(0)),
     LOCALNBS_CELL |->
        IF t.local_schema.py # "None"
        THEN maybe_tvalue(PyInt(t.local_schema.num_byte_slices))
        ELSE maybe_tvalue(PyInt(0)),
     EXTRAPROGRAMPAGES_CELL |->
        IF t.extra_pages.py # "None" THEN maybe_tvalue(t.extra_pages)
        ELSE maybe_tvalue(PyInt(0))]

\* as type_specific_subst, but a type with no fields of its own gets the empty
\* substitution instead of None
type_specific_subst_never_none(t) ==
    IF t.type.v = PAYMENT_TXN THEN payment_subst(t)
    ELSE IF t.type.v = APPCALL_TXN THEN appcall_subst(t)
    ELSE EmptySubst

\* the type-specific substitution, None when the type has none
type_specific_subst(t) ==
    IF t.type.v = PAYMENT_TXN THEN payment_subst(t)
    ELSE IF t.type.v = APPCALL_TXN THEN appcall_subst(t)
    ELSE PyNone

empty_array_fields_subst ==
    [ACCOUNTS_CELL |-> tvalue_list(<<>>),
     APPLICATIONARGS_CELL |-> tvalue_list(<<>>),
     FOREIGNAPPS_CELL |-> tvalue_list(<<>>),
     FOREIGNASSETS_CELL |-> tvalue_list(<<>>),
     TXNEXECUTIONCONTEXT_CELL |-> KToken(<<".", "K">>, "K")]

empty_pgm_fileds_subst ==
    [APPROVALPROGRAM_CELL |-> maybe_tvalue(PyNone),
     APPROVALPROGRAMSRC_CELL |-> KToken(<<"i", "n", "t", " ", "0">>, "TealInputPgm"),
     CLEARSTATEPROGRAM_CELL |-> maybe_tvalue(PyNone),
     CLEARSTATEPROGRAMSRC_CELL |-> KToken(<<"i", "n", "t", " ", "1">>, "TealInputPgm")]

empty_service_fields_subst ==
    [LOGDATA_CELL |-> tvalue_list(<<>>),
     LOGSIZE_CELL |-> tvalue(PyInt(0)),
     TXSCRATCH_CELL |-> KApply(".Map", <<>>)]

empty_fields_subst == [k \in free_vars(empty_transaction_cell) |-> maybe_tvalue(PyNone)]

\* as backfill_subst, without the substitution built from the template's variables
backfill_subst_named_only ==
    Compose(empty_service_fields_subst,
            Compose(empty_array_fields_subst, empty_pgm_fileds_subst))

\* the substitution that fills the cells the transaction's fields left unset
backfill_subst ==
    Compose(empty_fields_subst,
            Compose(empty_service_fields_subst,
                    Compose(empty_array_fields_subst, empty_pgm_fileds_subst)))

fields_subst(t, txid, type_enum) ==
    Compose(Compose([TXID_CELL |-> KToken(<<QUOTE>> \o txid \o <<QUOTE>>, "String")],
                    header_subst(t, type_enum)),
            type_specific_subst(t))

transaction_k_term(t, txid) ==
    LET type_enum == txn_type_to_type_enum(t.type.v)
    IN  IF ~IsOk(type_enum) THEN type_enum
        ELSE IF t.type.v = ASSETTRANSFER_TXN THEN Raise("NotImplementedError", "")
        ELSE IF type_specific_subst(t) = PyNone
        THEN Raise("ValueError", "Transaction object is invalid")
        ELSE Ok(SubstApply(backfill_subst,
                           SubstApply(fields_subst(t, txid, type_enum.val),
                                      empty_transaction_cell)))

(***************************************************************************)
(* KAVMTransaction.from_k_cell: a K <transaction> cell to a transaction.   *)
(***************************************************************************)
\* subst[cell].token
TokenOf(subst, cell) ==
    IF cell \notin DOMAIN subst THEN Raise("KeyError", cell)
    ELSE IF ~IsKToken(subst[cell]) THEN Raise("AttributeError", "token")
    ELSE Ok(subst[cell].token)

\* subst[cell].token.strip('"')
StrippedTokenOf(subst, cell) ==
    LET r == TokenOf(subst, cell)
    IN  IF IsOk(r) THEN Ok(Strip(r.val, QUOTE)) ELSE r

\* b64decode(subst[cell].token.strip('"') if hasattr(subst[cell], 'token') else '')
ProgramOf(subst, cell) ==
    IF cell \notin DOMAIN subst THEN Raise("KeyError", cell)
    ELSE IF IsKToken(subst[cell])
         THEN Ok(PyBytes(B64Decode(Strip(subst[cell].token, QUOTE))))
    ELSE Ok(PyBytes(B64Decode(<<>>)))

NoArrays ==
    [app_args |-> PyNone, accounts |-> PyNone, foreign_apps |-> PyNone,
     foreign_assets |-> PyNone]

from_k_cell_payment(subst, sp) ==
    LET sender == StrippedTokenOf(subst, "SENDER_CELL")
        receiver == StrippedTokenOf(subst, "RECEIVER_CELL")
        amt == PyIntOf(TokenOf(subst, "AMOUNT_CELL"))
        args == <<sender, receiver, amt>>
    IN  IF ~AllOk(args) THEN FirstRaise(args)
        ELSE Ok(PaymentTxn(sender.val, sp, receiver.val, amt.val, PyNone))

from_k_cell_axfer(subst, sp) ==
    LET sender == StrippedTokenOf(subst, "SENDER_CELL")
        receiver == StrippedTokenOf(subst, "ASSETRECEIVER_CELL")
        amt == PyIntOf(StrippedTokenOf(subst, "ASSETAMOUNT_CELL"))
        index == PyIntOf(StrippedTokenOf(subst, "XFERASSET_CELL"))
        args == <<sender, receiver, amt, index>>
    IN  IF ~AllOk(args) THEN FirstRaise(args)
        ELSE Ok(AssetTransferTxn(sender.val, sp, receiver.val, amt.val, index.val))

from_k_cell_appcall(subst, sp) ==
    LET sender == StrippedTokenOf(subst, "SENDER_CELL")
        index == PyIntOf(StrippedTokenOf(subst, "APPLICATIONID_CELL"))
        on_complete == OnComplete(PyIntOf(StrippedTokenOf(subst, "ONCOMPLETION_CELL")))
        localnui == PyIntOf(StrippedTokenOf(subst, "LOCALNUI_CELL"))
        localnbs == PyIntOf(StrippedTokenOf(subst, "LOCALNBS_CELL"))
        globalnui == PyIntOf(StrippedTokenOf(subst, "GLOBALNUI_CELL"))
        globalnbs == PyIntOf(StrippedTokenOf(subst, "GLOBALNBS_CELL"))
        approval == ProgramOf(subst, "APPROVALPROGRAM_CELL")
        clear == ProgramOf(subst, "CLEARSTATEPROGRAM_CELL")
        args == <<sender, index, on_complete, localnui, localnbs, globalnui, globalnbs,
                  approval, clear>>
    IN  IF ~AllOk(args) THEN FirstRaise(args)
        ELSE Ok(ApplicationCallTxn(sender.val, sp, index.val, on_complete.val,
                                   StateSchema(localnui.val, localnbs.val),
                                   StateSchema(globalnui.val, globalnbs.val),
                                   approval.val, clear.val, NoArrays, PyInt(0)))

\* as from_k_cell_dispatch, but any other tag is read as a payment
from_k_cell_dispatch_default_payment(subst, sp, tx_type) ==
    IF tx_type = ASSETTRANSFER_TXN THEN from_k_cell_axfer(subst, sp)
    ELSE IF tx_type = APPCALL_TXN THEN from_k_cell_appcall(subst, sp)
    ELSE from_k_cell_payment(subst, sp)

\* the dispatch on the quote-stripped type tag
from_k_cell_dispatch(subst, sp, tx_type) ==
    IF tx_type = PAYMENT_TXN THEN from_k_cell_payment(subst, sp)
    ELSE IF tx_type = ASSETTRANSFER_TXN THEN from_k_cell_axfer(subst, sp)
    ELSE IF tx_type = APPCALL_TXN THEN from_k_cell_appcall(subst, sp)
    ELSE Raise("ValueError", "Cannot instantiate a Transaction of an unexpected type")

from_k_cell(kast_term) ==
    LET tx_cell_subst == SplitConfigFrom(kast_term)
        fee == PyIntOf(TokenOf(tx_cell_subst, "FEE_CELL"))
        first == PyIntOf(TokenOf(tx_cell_subst, "FIRSTVALID_CELL"))
        last == PyIntOf(TokenOf(tx_cell_subst, "LASTVALID_CELL"))
        gh == TokenOf(tx_cell_subst, "GENESISHASH_CELL")
        tx_type == StrippedTokenOf(tx_cell_subst, "TXTYPE_CELL")
        args == <<fee, first, last, gh, tx_type>>
    IN  IF ~AllOk(args) THEN FirstRaise(args)
        ELSE from_k_cell_dispatch(tx_cell_subst,
                                  SuggestedParams(fee.val, first.val, last.val,
                                                  PyStr(gh.val)),
                                  tx_type.val)

(***************************************************************************)
(* Python dicts (functions from keys to values) and the helpers the term   *)
(* factory imports.                                                        *)
(***************************************************************************)
PyBool(b) == [py |-> "bool", v |-> b]

\* d[k]
Item(d, k) == IF k \in DOMAIN d THEN Ok(d[k]) ELSE Raise("KeyError", k)

\* d[k1][k2]
Item2(d, k1, k2) ==
    LET a == Item(d, k1) IN IF IsOk(a) THEN Item(a.val, k2) ELSE a

\* d[k1][k2][k3]
Item3(d, k1, k2, k3) ==
    LET a == Item2(d, k1, k2) IN IF IsOk(a) THEN Item(a.val, k3) ELSE a

\* F applied to the value of a result that is no raise
OnOk(r, F(_)) == IF IsOk(r) THEN Ok(F(r.val)) ELSE r

intTokenOf(value) == intToken(value.v)

stringTokenOf(value) == stringToken(value.v)

\* intToken(1) if value else intToken(0)
flagTokenOf(value) == IF Truthy(value) THEN intToken(1) ELSE intToken(0)

\* token_or_expr(intToken, value): a term is kept, a number becomes a token
token_or_expr(value) == IF "node" \in DOMAIN value THEN value ELSE intToken(value.v)

\* algorand_address_to_k_bytes: the address as a K Bytes token
algorand_address_to_k_bytes(addr) ==
    KToken(<<"b", QUOTE>> \o addr.v \o <<QUOTE>>, "Bytes")

\* a built cell, as it stands inside another term
KCell(cells) == [node |-> "KCell", cells |-> cells]

\* build_assoc(unit, label, terms)
RECURSIVE build_assoc(_, _, _)
build_assoc(unit, label, terms) ==
    IF Len(terms) = 0 THEN unit
    ELSE IF Len(terms) = 1 THEN terms[1]
    ELSE KApply(label, <<terms[1], build_assoc(unit, label, Tail(terms))>>)

\* one entry of a substitution under construction: the cell and the result of
\* evaluating its value
Field(cell, r) == [cell |-> cell, r |-> r]

\* Subst({...}) on entries evaluated in order: the first raise ends the call
SubstOfFields(fields) ==
    LET rs == [i \in 1..Len(fields) |-> fields[i].r]
    IN  IF ~AllOk(rs) THEN FirstRaise(rs)
        ELSE Ok([c \in {fields[i].cell : i \in 1..Len(fields)} |->
                    fields[CHOOSE i \in 1..Len(fields) : fields[i].cell = c].r.val])

\* symbolic_fields_subst if symbolic_fields_subst else Subst({})
OrEmptySubst(symbolic_fields_subst) ==
    IF "py" \in DOMAIN symbolic_fields_subst THEN EmptySubst ELSE symbolic_fields_subst

\* [f(x) for x in list]: the results, in order
ListResults(list, F(_)) == [i \in 1..Len(list) |-> F(list[i])]

\* the list of the built cells, or the first raise
CellList(rs) ==
    IF ~AllOk(rs) THEN FirstRaise(rs)
    ELSE Ok([i \in 1..Len(rs) |-> KCell(rs[i].val)])

\* the templates: split_config_from(init_config(sort)) gives one variable per cell
AssetCells ==
    {"ASSETID_CELL", "ASSETNAME_CELL", "ASSETUNITNAME_CELL", "ASSETTOTAL_CELL",
     "ASSETDECIMALS_CELL", "ASSETDEFAULTFROZEN_CELL", "ASSETURL_CELL",
     "ASSETMETADATAHASH_CELL", "ASSETMANAGERADDR_CELL", "ASSETRESERVEADDR_CELL",
     "ASSETFREEZEADDR_CELL", "ASSETCLAWBACKADDR_CELL"}

OptInAssetCells == {"OPTINASSETID_CELL", "OPTINASSETBALANCE_CELL", "OPTINASSETFROZEN_CELL"}

AppCells ==
    {"APPID_CELL", "APPROVALPGMSRC_CELL", "CLEARSTATEPGMSRC_CELL", "APPROVALPGM_CELL",
     "CLEARSTATEPGM_CELL", "GLOBALNUMINTS_CELL", "GLOBALNUMBYTES_CELL",
     "LOCALNUMINTS_CELL", "LOCALNUMBYTES_CELL", "GLOBALBYTES_CELL", "GLOBALINTS_CELL",
     "EXTRAPAGES_CELL"}

AccountCells ==
    {"ADDRESS_CELL", "BALANCE_CELL", "MINBALANCE_CELL", "ROUND_CELL", "PREREWARDS_CELL",
     "REWARDS_CELL", "STATUS_CELL", "KEY_CELL", "APPSCREATED_CELL", "APPSOPTEDIN_CELL",
     "ASSETSCREATED_CELL", "ASSETSOPTEDIN_CELL", "BOXES_CELL"}

symbolic_asset_cell == [c \in AssetCells |-> KVariable(c)]

symbolic_opt_in_asset_cell == [c \in OptInAssetCells |-> KVariable(c)]

symbolic_app_cell == [c \in AppCells |-> KVariable(c)]

symbolic_account_cell == [c \in AccountCells |-> KVariable(c)]

MIN_BALANCE == 100000

\* the contents the configuration gives the account's cells
default_fields_subst ==
    [ADDRESS_CELL |-> KToken(<<QUOTE, QUOTE>>, "TAddressLiteral"),
     BALANCE_CELL |-> intToken(0),
     MINBALANCE_CELL |-> intToken(MIN_BALANCE),
     ROUND_CELL |-> intToken(0),
     PREREWARDS_CELL |-> intToken(0),
     REWARDS_CELL |-> intToken(0),
     STATUS_CELL |-> intToken(0),
     KEY_CELL |-> KToken(<<QUOTE, QUOTE>>, "TAddressLiteral")]

(***************************************************************************)
(* KAVMTermFactory.asset_cell and opt_in_asset_cell.                       *)
(***************************************************************************)
asset_sdk_fields_subst(d) ==
    SubstOfFields(<<
        Field("ASSETID_CELL", OnOk(Item(d, "index"), intTokenOf)),
        Field("ASSETNAME_CELL", OnOk(Item2(d, "params", "name"), stringTokenOf)),
        Field("ASSETUNITNAME_CELL", OnOk(Item2(d, "params", "unit-name"), stringTokenOf)),
        Field("ASSETTOTAL_CELL", OnOk(Item2(d, "params", "total"), token_or_expr)),
        Field("ASSETDECIMALS_CELL", OnOk(Item2(d, "params", "decimals"), intTokenOf)),
        Field("ASSETDEFAULTFROZEN_CELL",
              OnOk(Item2(d, "params", "default-frozen"), flagTokenOf)),
        Field("ASSETURL_CELL", OnOk(Item2(d, "params", "url"), stringTokenOf)),
        Field("ASSETMETADATAHASH_CELL",
              OnOk(Item2(d, "params", "metadata-hash"), stringTokenOf)),
        Field("ASSETMANAGERADDR_CELL",
              OnOk(Item2(d, "params", "manager"), algorand_address_to_k_bytes)),
        Field("ASSETRESERVEADDR_CELL",
              OnOk(Item2(d, "params", "reserve"), algorand_address_to_k_bytes)),
        Field("ASSETFREEZEADDR_CELL",
              OnOk(Item2(d, "params", "freeze"), algorand_address_to_k_bytes)),
        Field("ASSETCLAWBACKADDR_CELL",
              OnOk(Item2(d, "params", "clawback"), algorand_address_to_k_bytes))>>)

\* as asset_cell, with the two substitutions composed the other way round
asset_cell_record_wins(sdk_asset_dict, symbolic_fields_subst) ==
    LET sdk == asset_sdk_fields_subst(sdk_asset_dict)
    IN  IF ~IsOk(sdk) THEN sdk
        ELSE Ok(SubstApply(Compose(OrEmptySubst(symbolic_fields_subst), sdk.val),
                           symbolic_asset_cell))

asset_cell(sdk_asset_dict, symbolic_fields_subst) ==
    LET sdk == asset_sdk_fields_subst(sdk_asset_dict)
    IN  IF ~IsOk(sdk) THEN sdk
        ELSE Ok(SubstApply(Compose(sdk.val, OrEmptySubst(symbolic_fields_subst)),
                           symbolic_asset_cell))

opt_in_asset_sdk_fields_subst(d) ==
    SubstOfFields(<<
        Field("OPTINASSETID_CELL", OnOk(Item(d, "asset-id"), intTokenOf)),
        Field("OPTINASSETBALANCE_CELL", OnOk(Item(d, "amount"), token_or_expr)),
        Field("OPTINASSETFROZEN_CELL", OnOk(Item(d, "is-frozen"), flagTokenOf))>>)

opt_in_asset_cell(sdk_asset_holding, symbolic_fields_subst) ==
    LET sdk == opt_in_asset_sdk_fields_subst(sdk_asset_holding)
    IN  IF ~IsOk(sdk) THEN sdk
        ELSE Ok(SubstApply(Compose(sdk.val, OrEmptySubst(symbolic_fields_subst)),
                           symbolic_opt_in_asset_cell))

\* opt_in_app_cell raises before it reads anything
opt_in_app_cell(sdk_app_local_state, symbolic_fields_subst) ==
    Raise("NotImplementedError", "")

(***************************************************************************)
(* preprocess_teal_program: hex tokens of a parsed program become strings. *)
(***************************************************************************)
HexDigits == <<"0", "1", "2", "3", "4", "5", "6", "7", "8", "9", "a", "b", "c", "d", "e", "f">>

HexVal(c) == (CHOOSE i \in 1..Len(HexDigits) : HexDigits[i] = c) - 1

\* the characters with the codes 32 .. 95
Ascii ==
    <<" ", "!", "\"", "#", "$", "%", "&", "'", "(", ")", "*", "+", ",", "-", ".", "/",
      "0", "1", "2", "3", "4", "5", "6", "7", "8", "9", ":", ";", "<", "=", ">", "?",
      "@", "A", "B", "C", "D", "E", "F", "G", "H", "I", "J", "K", "L", "M", "N", "O",
      "P", "Q", "R", "S", "T", "U", "V", "W", "X", "Y", "Z", "[", "\\", "]", "^", "_">>

\* chr(n) for a code of that range
Chr(n) == Ascii[n - 31]

\* "\x" before every pair of hex digits (the digits come in pairs)
RECURSIVE hex_token_to_k_string(_)
hex_token_to_k_string(ht) ==
    IF Len(ht) < 2 THEN <<>>
    ELSE <<"\\", "x", ht[1], ht[2]>> \o hex_token_to_k_string(SubSeq(ht, 3, Len(ht)))

\* pyk.utils.dequote_str on text whose escapes are all \xHH
RECURSIVE dequote_str(_)
dequote_str(str) ==
    IF Len(str) = 0 THEN <<>>
    ELSE IF Len(str) >= 4 /\ str[1] = "\\" /\ str[2] = "x"
         THEN <<Chr(16 * HexVal(str[3]) + HexVal(str[4]))>>
              \o dequote_str(SubSeq(str, 5, Len(str)))
    ELSE <<str[1]>> \o dequote_str(Tail(str))

RECURSIVE preprocess_teal_program(_)
preprocess_teal_program(term) ==
    IF term.node = "KApply" THEN
        IF Len(term.args) = 0 THEN term
        ELSE KApply(term.label,
                    [i \in 1..Len(term.args) |-> preprocess_teal_program(term.args[i])])
    ELSE IF term.node = "KToken" /\ term.sort = "HexToken"
         THEN stringToken(dequote_str(hex_token_to_k_string(SubSeq(term.token, 3,
                                                                  Len(term.token)))))
    ELSE term

(***************************************************************************)
(* KAVMTermFactory.app_cell.                                               *)
(***************************************************************************)
ApprovalFile == <<"a", ".", "t", "e", "a", "l">>

ClearFile == <<"c", ".", "t", "e", "a", "l">>

BrokenFile == <<"b", "a", "d", ".", "t", "e", "a", "l">>

\* the directory of TEAL sources: the files in it that parse, each with the term
\* kore_to_kast(parse_teal(path)) gives
TealSourcesDir ==
    (ApprovalFile :> KApply("program",
                            <<KApply("byte", <<KToken(<<"0", "x", "4", "b", "3", "1">>,
                                                     "HexToken")>>),
                              KApply("int", <<KToken(<<"1">>, "Int")>>)>>))
    @@ (ClearFile :> KApply("int", <<KToken(<<"1">>, "Int")>>))

\* kavm.kore_to_kast(kavm.parse_teal(teal_sources_dir / file))
parse_teal(file) ==
    IF file.v \in DOMAIN TealSourcesDir THEN Ok(TealSourcesDir[file.v])
    ELSE Raise("ParseTealError", "parse_teal failed")

\* try: d['params'][schema][key] except KeyError: 0
SchemaCount(d, schema, key) ==
    LET r == Item3(d, "params", schema, key) IN IF IsOk(r) THEN r.val ELSE PyInt(0)

\* the entries of the raw global state whose value has the given type
RECURSIVE StateEntries(_, _)
StateEntries(state, type) ==
    IF Len(state) = 0 THEN <<>>
    ELSE (IF Head(state).type = type THEN <<Head(state)>> ELSE <<>>)
         \o StateEntries(Tail(state), type)

bytesToken(text) == KToken(<<"b", QUOTE>> \o text \o <<QUOTE>>, "Bytes")

\* map_bytes_bytes(raw_list_state_to_dict_bytes_bytes(state))
map_bytes_bytes(state) ==
    LET es == StateEntries(state, 1)
    IN  IF Len(es) = 0 THEN KApply(".Map", <<>>)
        ELSE KApply("_Map_", [i \in 1..Len(es) |->
                KApply("_|->_", <<bytesToken(es[i].key), bytesToken(es[i].bytes)>>)])

\* map_bytes_ints(raw_list_state_to_dict_bytes_ints(state))
map_bytes_ints(state) ==
    LET es == StateEntries(state, 2)
    IN  IF Len(es) = 0 THEN KApply(".Map", <<>>)
        ELSE KApply("_Map_", [i \in 1..Len(es) |->
                KApply("_|->_", <<bytesToken(es[i].key), intToken(es[i].uint)>>)])

\* try: d['params']['global-state'] except KeyError: no entry
GlobalState(d) ==
    LET r == Item2(d, "params", "global-state") IN IF IsOk(r) THEN r.val ELSE <<>>

\* the trivial program substituted when a program cannot be read
placeholder_pgm_term ==
    KApply("int__TEAL-OPCODES_PseudoOpCode_PseudoTUInt64", <<KToken(<<"0">>, "Int")>>)

\* as program_term, but a failure leaves the placeholder program and no raise
program_term_swallowing(d, key) ==
    LET file == Item2(d, "params", key)
    IN  IF ~IsOk(file) THEN Ok(placeholder_pgm_term)
        ELSE IF ~IsOk(parse_teal(file.val)) THEN Ok(placeholder_pgm_term)
        ELSE OnOk(parse_teal(file.val), preprocess_teal_program)

\* the try block around one program: the path, the parse, the preprocessing; on
\* any exception the placeholder is assigned and the exception raised again
program_term(d, key) ==
    LET file == Item2(d, "params", key)
    IN  IF ~IsOk(file) THEN file
        ELSE OnOk(parse_teal(file.val), preprocess_teal_program)

app_sdk_fields_subst(d) ==
    LET approval_pgm_term == program_term(d, "approval-program")
        clear_pgm_term == program_term(d, "clear-state-program")
    IN  IF ~IsOk(approval_pgm_term) THEN approval_pgm_term
        ELSE IF ~IsOk(clear_pgm_term) THEN clear_pgm_term
        ELSE SubstOfFields(<<
            Field("APPID_CELL", OnOk(Item(d, "id"), intTokenOf)),
            Field("APPROVALPGMSRC_CELL", approval_pgm_term),
            Field("CLEARSTATEPGMSRC_CELL", clear_pgm_term),
            Field("APPROVALPGM_CELL",
                  OnOk(Item2(d, "params", "approval-program"), stringTokenOf)),
            Field("CLEARSTATEPGM_CELL",
                  OnOk(Item2(d, "params", "clear-state-program"), stringTokenOf)),
            Field("GLOBALNUMINTS_CELL",
                  Ok(intTokenOf(SchemaCount(d, "global-state-schema", "num-uint")))),
            Field("GLOBALNUMBYTES_CELL",
                  Ok(intTokenOf(SchemaCount(d, "global-state-schema", "num-byte-slice")))),
            Field("LOCALNUMINTS_CELL",
                  Ok(intTokenOf(SchemaCount(d, "local-state-schema", "num-uint")))),
            Field("LOCALNUMBYTES_CELL",
                  Ok(intTokenOf(SchemaCount(d, "local-state-schema", "num-byte-slice")))),
            Field("GLOBALBYTES_CELL", Ok(map_bytes_bytes(GlobalState(d)))),
            Field("GLOBALINTS_CELL", Ok(map_bytes_ints(GlobalState(d)))),
            Field("EXTRAPAGES_CELL",
                  Ok(intTokenOf(LET r == Item2(d, "params", "extra-pages")
                                IN  IF IsOk(r) THEN r.val ELSE PyInt(0))))>>)

app_cell(sdk_app_dict, symbolic_fields_subst) ==
    LET sdk == app_sdk_fields_subst(sdk_app_dict)
    IN  IF ~IsOk(sdk) THEN sdk
        ELSE Ok(SubstApply(Compose(sdk.val, OrEmptySubst(symbolic_fields_subst)),
                           symbolic_app_cell))

(***************************************************************************)
(* KAVMTermFactory.account_cell.                                           *)
(***************************************************************************)
\* apps_local_state with an absent or empty list read as one local state
apps_local_state_never_empty(d) ==
    IF "apps-local-state" \in DOMAIN d /\ Len(d["apps-local-state"]) > 0
    THEN d["apps-local-state"] ELSE <<[id |-> PyInt(0)]>>

\* try: assert d['apps-local-state'] ... except (KeyError, AssertionError): []
apps_local_state(d) ==
    IF "apps-local-state" \in DOMAIN d /\ Len(d["apps-local-state"]) > 0
    THEN d["apps-local-state"] ELSE <<>>

\* intToken(d[key]) if d[key] else default_fields_subst[cell]
NumberOrDefault(d, key, cell) ==
    LET r == Item(d, key)
    IN  IF ~IsOk(r) THEN r
        ELSE IF Truthy(r.val) THEN Ok(intTokenOf(r.val))
        ELSE Ok(default_fields_subst[cell])

AppOf(sdk_app) == app_cell(sdk_app, PyNone)

OptInAppOf(sdk_app_local_state) == opt_in_app_cell(sdk_app_local_state, PyNone)

AssetOf(sdk_asset) == asset_cell(sdk_asset, PyNone)

OptInAssetOf(sdk_asset_holding) == opt_in_asset_cell(sdk_asset_holding, PyNone)

\* build_assoc over [f(x) for x in d[key]]
AssocOf(d, key, unit_sort, label, F(_)) ==
    LET list == Item(d, key)
    IN  IF ~IsOk(list) THEN list
        ELSE LET cells == CellList(ListResults(list.val, F))
             IN  IF ~IsOk(cells) THEN cells
                 ELSE Ok(build_assoc(KToken(<<".", "B", "a", "g">>, unit_sort), label,
                                     cells.val))

account_sdk_fields_subst(d) ==
    SubstOfFields(<<
        Field("ADDRESS_CELL", OnOk(Item(d, "address"), algorand_address_to_k_bytes)),
        Field("BALANCE_CELL", OnOk(Item(d, "amount"), token_or_expr)),
        Field("MINBALANCE_CELL",
              IF "min-balance" \in DOMAIN d THEN Ok(token_or_expr(d["min-balance"]))
              ELSE Ok(intToken(MIN_BALANCE))),
        Field("ROUND_CELL", NumberOrDefault(d, "round", "ROUND_CELL")),
        Field("PREREWARDS_CELL", NumberOrDefault(d, "pending-rewards", "PREREWARDS_CELL")),
        Field("REWARDS_CELL", NumberOrDefault(d, "rewards", "REWARDS_CELL")),
        Field("STATUS_CELL", NumberOrDefault(d, "status", "STATUS_CELL")),
        Field("KEY_CELL",
              LET auth == Item(d, "auth-addr")
              IN  IF ~IsOk(auth) THEN auth
                  ELSE IF Truthy(auth.val) THEN Ok(algorand_address_to_k_bytes(auth.val))
                  ELSE OnOk(Item(d, "address"), algorand_address_to_k_bytes)),
        Field("APPSCREATED_CELL",
              AssocOf(d, "created-apps", "AppMapCell", "_AppCellMap_", AppOf)),
        Field("APPSOPTEDIN_CELL",
              AssocOf([x \in {"l"} |-> apps_local_state(d)], "l", "OptInAppMapCell",
                      "_OptInAppCellMap_", OptInAppOf)),
        Field("ASSETSCREATED_CELL",
              AssocOf(d, "created-assets", "AssetMapCell", "_AssetCellMap_", AssetOf)),
        Field("ASSETSOPTEDIN_CELL",
              AssocOf(d, "assets", "OptInAssetMapCell", "_OptInAssetCellMap_",
                      OptInAssetOf)),
        Field("BOXES_CELL",
              Ok(build_assoc(KToken(<<".", "B", "a", "g">>, "BoxMapCell"), "_BoxCellMap_",
                             <<>>)))>>)

account_cell(sdk_account_dict, symbolic_fields_subst) ==
    LET sdk == account_sdk_fields_subst(sdk_account_dict)
    IN  IF ~IsOk(sdk) THEN sdk
        ELSE Ok(SubstApply(Compose(sdk.val, OrEmptySubst(symbolic_fields_subst)),
                           symbolic_account_cell))

(***************************************************************************)
(* The inputs of the transaction adaptor.                                  *)
(***************************************************************************)
Addresses == {<<"A", "L", "I", "C", "E">>, <<"B", "O", "B">>}

GenesisHash == PyStr(<<"g", "h", "=">>)

TxIds == {<<"t", "x", "0">>}

SPs ==
    {SuggestedParams(fee, first, last, GenesisHash) :
        <<fee, first, last>> \in {x \in IntVals \X IntVals \X IntVals : x[2] <= x[3]}}

ArrayChoices ==
    {NoArrays,
     [app_args |-> PyList(<<>>), accounts |-> PyList(<<>>),
      foreign_apps |-> PyList(<<>>), foreign_assets |-> PyList(<<>>)],
     [app_args |-> PyList(<<PyBytes(<<1>>)>>),
      accounts |-> PyList(<<PyStr(<<"B", "O", "B">>)>>),
      foreign_apps |-> PyList(<<PyInt(10)>>), foreign_assets |-> PyList(<<PyInt(11)>>)]}

PaymentTxns ==
    {PaymentTxn(sender, sp, receiver, amt, close) :
        sender \in Addresses, sp \in SPs, receiver \in Addresses, amt \in IntVals,
        close \in {PyNone} \cup {PyStr(a) : a \in Addresses}}

ApplicationCallTxns ==
    {ApplicationCallTxn(<<"A", "L", "I", "C", "E">>, sp, index, oc, ls, gs, ap, cp, arrays, ep) :
        sp \in SPs, index \in IntVals,
        oc \in {PyNone, PyInt(0), PyInt(5)},
        ls \in {PyNone, StateSchema(10, 11)}, gs \in {PyNone, StateSchema(0, 1)},
        ap \in {PyNone, PyBytes(<<6, 129, 1>>)}, cp \in {PyNone, PyBytes(<<2, 32>>)},
        arrays \in ArrayChoices,
        ep \in {PyNone} \cup {PyInt(n) : n \in IntVals}}

OtherTypes ==
    {ASSETTRANSFER_TXN, KEYREG_TXN, ASSETCONFIG_TXN, ASSETFREEZE_TXN, UNKNOWN_TXN,
     <<"s", "t", "p", "f">>, <<>>}

OtherTxns ==
    {Transaction(sender, sp, ty) : sender \in Addresses, sp \in SPs, ty \in OtherTypes}

Txns == PaymentTxns \cup ApplicationCallTxns \cup OtherTxns

\* terms as the engine hands them back: a built term whose type cell names any type;
\* an asset transfer carries its own three cells
EngineTerms ==
    {[[transaction_k_term(t, txid).val EXCEPT !["TXTYPE_CELL"] = stringToken(ty)]
        EXCEPT !["ASSETRECEIVER_CELL"] =
                    IF ty = ASSETTRANSFER_TXN THEN KToken(t.receiver.v, "TAddressLiteral")
                    ELSE @,
               !["ASSETAMOUNT_CELL"] = IF ty = ASSETTRANSFER_TXN THEN intToken(t.amt.v) ELSE @,
               !["XFERASSET_CELL"] = IF ty = ASSETTRANSFER_TXN THEN intToken(t.fee.v) ELSE @] :
        t \in {x \in PaymentTxns : x.close_remainder_to = PyNone}, txid \in TxIds,
        ty \in OtherTypes \cup {PAYMENT_TXN, APPCALL_TXN}}

(***************************************************************************)
(* The inputs of the term factory.                                         *)
(***************************************************************************)
Absent == [py |-> "absent"]

EmptyDict == [k \in {} |-> PyNone]

\* the dict fragment of an optional key
Opt(key, choice) == IF choice = Absent THEN EmptyDict ELSE key :> choice

Alice == <<"A", "L", "I", "C", "E">>

Bob == <<"B", "O", "B">>

OptNumbers == {Absent, PyInt(0), PyInt(10)}

AssetRecords ==
    {("index" :> PyInt(index)) @@
     ("params" :>
        (("name" :> PyStr(<<"G", "o", "l", "d">>)) @@ ("unit-name" :> PyStr(<<"A", "U">>)) @@
         ("total" :> PyInt(total)) @@ ("decimals" :> PyInt(decimals)) @@
         ("default-frozen" :> PyBool(frozen)) @@ ("url" :> PyStr(<<>>)) @@
         ("metadata-hash" :> PyStr(<<"h">>)) @@ ("manager" :> PyStr(manager)) @@
         ("reserve" :> PyStr(Bob)) @@ ("freeze" :> PyStr(Alice)) @@
         ("clawback" :> PyStr(Bob)))) :
        index \in IntVals, total \in IntVals, decimals \in {0, 2}, frozen \in BOOLEAN,
        manager \in Addresses}

AssetHoldings ==
    {("asset-id" :> PyInt(id)) @@ ("amount" :> PyInt(amount)) @@
     ("is-frozen" :> PyBool(frozen)) :
        id \in IntVals, amount \in IntVals, frozen \in BOOLEAN}

StateSchemaDicts ==
    {Absent, EmptyDict, "num-uint" :> PyInt(10),
     ("num-uint" :> PyInt(10)) @@ ("num-byte-slice" :> PyInt(11)),
     ("num-uint" :> PyInt(0)) @@ ("num-byte-slice" :> PyInt(1))}

GlobalStates ==
    {EmptyDict, "global-state" :> <<>>,
     "global-state" :>
        <<[key |-> <<"a", "w", "=", "=">>, type |-> 1, bytes |-> <<"Y", "g", "=", "=">>,
           uint |-> 0],
          [key |-> <<"Y", "w", "=", "=">>, type |-> 2, bytes |-> <<>>, uint |-> 10]>>}

AppRecords ==
    {("id" :> PyInt(id)) @@
     ("params" :>
        (Opt("approval-program", approval) @@ ("clear-state-program" :> PyStr(clear)) @@
         Opt("global-state-schema", gschema) @@ Opt("local-state-schema", lschema) @@
         Opt("extra-pages", pages) @@ gstate)) :
        id \in IntVals, approval \in {Absent, PyStr(ApprovalFile), PyStr(BrokenFile)},
        clear \in {ClearFile, BrokenFile},
        gschema \in StateSchemaDicts, lschema \in {Absent, EmptyDict} \cup
            {("num-uint" :> PyInt(0)) @@ ("num-byte-slice" :> PyInt(1))},
        pages \in {Absent} \cup {PyInt(n) : n \in IntVals}, gstate \in GlobalStates}

GoodApp ==
    ("id" :> PyInt(10)) @@
    ("params" :> (("approval-program" :> PyStr(ApprovalFile)) @@
                  ("clear-state-program" :> PyStr(ClearFile))))

BadApp ==
    ("id" :> PyInt(0)) @@
    ("params" :> (("approval-program" :> PyStr(ApprovalFile)) @@
                  ("clear-state-program" :> PyStr(BrokenFile))))

AnAsset == CHOOSE d \in AssetRecords : d["params"]["default-frozen"] = PyBool(FALSE)

AHolding == CHOOSE d \in AssetHoldings : d["is-frozen"] = PyBool(TRUE)

Collections(apps, assets, holdings) ==
    ("created-apps" :> apps) @@ ("created-assets" :> assets) @@ ("assets" :> holdings)

\* the nested collections of an account record
AccountCollections ==
    {Collections(<<>>, <<>>, <<>>),
     Collections(<<>>, <<>>, <<>>) @@ ("apps-local-state" :> <<>>),
     Collections(<<>>, <<>>, <<>>) @@ ("apps-local-state" :> <<[id |-> PyInt(10)]>>),
     Collections(<<GoodApp>>, <<>>, <<>>),
     Collections(<<GoodApp, BadApp>>, <<>>, <<>>),
     Collections(<<>>, <<AnAsset>>, <<AHolding>>),
     Collections(<<GoodApp>>, <<AnAsset, AnAsset>>, <<AHolding>>)}

AccountRecords ==
    {("address" :> PyStr(Alice)) @@ ("amount" :> PyInt(amount)) @@
     Opt("min-balance", minbal) @@ Opt("round", round) @@
     Opt("pending-rewards", prerewards) @@ Opt("rewards", rewards) @@
     Opt("status", status) @@ Opt("auth-addr", auth) @@ collections :
        amount \in IntVals, minbal \in {Absent, PyInt(0)}, round \in OptNumbers,
        prerewards \in OptNumbers, rewards \in OptNumbers, status \in OptNumbers,
        auth \in {Absent, PyNone, PyStr(<<>>), PyStr(Bob)},
        collections \in AccountCollections}

\* the caller's overrides: none, or symbolic values and tokens for some cells
AssetOverrides ==
    {PyNone, EmptySubst, [ASSETTOTAL_CELL |-> KVariable("TOTAL")],
     [ASSETID_CELL |-> intToken(11), ASSETNAME_CELL |-> KVariable("NAME")]}

OptInAssetOverrides == {PyNone, [OPTINASSETBALANCE_CELL |-> KVariable("BALANCE")]}

AppOverrides ==
    {PyNone, [GLOBALNUMINTS_CELL |-> KVariable("NUM_INTS"), APPID_CELL |-> intToken(11)]}

AccountOverrides ==
    {PyNone, [BALANCE_CELL |-> KVariable("BALANCE"), ROUND_CELL |-> intToken(11)]}

(***************************************************************************)
(* KAVMTransaction.sanitize_byte_fields, with algosdk's encode_address:    *)
(* base32 (RFC 4648 alphabet) of the key and its four-byte checksum, the   *)
(* "=" padding stripped.                                                   *)
(***************************************************************************)
B32Chars ==
    <<"A", "B", "C", "D", "E", "F", "G", "H", "I", "J", "K", "L", "M", "N", "O", "P",
      "Q", "R", "S", "T", "U", "V", "W", "X", "Y", "Z", "2", "3", "4", "5", "6", "7">>

B32Index(c) == (CHOOSE i \in 1..Len(B32Chars) : B32Chars[i] = c) - 1

Pow2(n) == IF n = 0 THEN 1 ELSE IF n = 1 THEN 2 ELSE IF n = 2 THEN 4 ELSE IF n = 3 THEN 8
           ELSE IF n = 4 THEN 16 ELSE IF n = 5 THEN 32 ELSE IF n = 6 THEN 64 ELSE 128

\* the bits of a byte string, most significant first
BitsOfBytes(b) ==
    [j \in 1..(8 * Len(b)) |-> (b[(j - 1) \div 8 + 1] \div Pow2(7 - ((j - 1) % 8))) % 2]

\* the bits of base32 text
BitsOfB32(s) ==
    [j \in 1..(5 * Len(s)) |->
        (B32Index(s[(j - 1) \div 5 + 1]) \div Pow2(4 - ((j - 1) % 5))) % 2]

\* the number that width bits of the sequence spell from position from on, bits
\* past the end read as zero
RECURSIVE BitsValue(_, _, _)
BitsValue(bits, from, width) ==
    IF width = 0 THEN 0
    ELSE (IF from <= Len(bits) THEN bits[from] ELSE 0) * Pow2(width - 1)
         + BitsValue(bits, from + 1, width - 1)

\* base64.b32encode
B32Encode(b) ==
    LET bits  == BitsOfBytes(b)
        n     == (8 * Len(b) + 4) \div 5
        chars == [k \in 1..n |-> B32Chars[BitsValue(bits, 5 * (k - 1) + 1, 5) + 1]]
    IN  chars \o [k \in 1..((8 - (n % 8)) % 8) |-> "="]

\* base64.b32decode of text whose padding was stripped
B32Decode(s) ==
    LET bits == BitsOfB32(s)
    IN  [k \in 1..((5 * Len(s)) \div 8) |-> BitsValue(bits, 8 * (k - 1) + 1, 8)]

\* algosdk's checksum: the SHA-512/256 digest of the key.  The digest is not
\* computed; a rolling 24-bit digest stands for it.
RECURSIVE Digest(_, _)
Digest(b, acc) ==
    IF Len(b) = 0 THEN acc ELSE Digest(Tail(b), (acc * 31 + Head(b) + 1) % 16777216)

checksum(b) ==
    LET d == Digest(b, 7)
    IN  <<(d \div 65536) % 256, (d \div 4096) % 256, (d \div 256) % 256, d % 256>>

\* algosdk.encoding.encode_address: the last four bytes of the checksum appended
encode_address(addr_bytes) ==
    Strip(B32Encode(addr_bytes \o checksum(addr_bytes)), "=")

\* the fields sanitize_byte_fields renders as addresses
SanitizedAddressFields == {"snd", "rcv", "close"}

sanitize_byte_fields(txn_dict) ==
    [k \in DOMAIN txn_dict |->
        IF txn_dict[k].py = "bytes"
        THEN IF k \in SanitizedAddressFields
             THEN PyStr(encode_address(txn_dict[k].v))
             ELSE PyStr(B64Encode(txn_dict[k].v))
        ELSE txn_dict[k]]

(***************************************************************************)
(* KAVMApplyData and KAVMTransaction.pending_transaction_responce.  An     *)
(* apply-data object lives in the heap under its identity; a response      *)
(* holds its two lists by reference, as the dictionary the method returns  *)
(* does.                                                                   *)
(***************************************************************************)
\* KAVMApplyData.__init__
KAVMApplyData(tx_scratch, inner_txns, tx_config_asset, tx_application_id, log_size, log_data) ==
    [_tx_scratch |-> IF Truthy(tx_scratch) THEN tx_scratch.v ELSE <<>>,
     _inner_txns |-> IF Truthy(inner_txns) THEN inner_txns.v ELSE <<>>,
     _tx_config_asset |-> tx_config_asset,
     _tx_application_id |-> tx_application_id,
     _log_size |-> log_size,
     _log_data |-> IF Truthy(log_data) THEN log_data.v ELSE <<>>]

\* the identity of the object the class attribute _apply_data holds
ClassApplyData == 0

\* a KAVMTransaction object: its instance attribute _apply_data, when it has one
KAVMTransaction(has_apply_data, apply_data) ==
    [has_apply_data |-> has_apply_data, apply_data |-> apply_data]

\* self._apply_data: the instance attribute, or else the class attribute
ApplyDataOf(self) == IF self.has_apply_data THEN self.apply_data ELSE ClassApplyData

\* a reference to a list attribute of an apply-data object
ListRef(obj, attr) == [py |-> "listref", obj |-> obj, attr |-> attr]

\* the list a reference leads to
Deref(objects, ref) == objects[ref.obj][ref.attr]

\* as pending_transaction_responce, reading the class attribute's object whatever
\* the transaction holds
pending_transaction_responce_of_class(objects, self) ==
    ("asset-index" :> PyInt(objects[ClassApplyData]._tx_config_asset))
    @@ ("application-index" :> PyInt(objects[ClassApplyData]._tx_application_id))
    @@ ("close-rewards" :> PyInt(0)) @@ ("closing-amount" :> PyInt(0))
    @@ ("asset-closing-amount" :> PyInt(0)) @@ ("confirmed-round" :> PyInt(1))
    @@ ("receiver-rewards" :> PyInt(0)) @@ ("sender-rewards" :> PyInt(0))
    @@ ("local-state-delta" :> PyNone) @@ ("global-state-delta" :> PyNone)
    @@ ("logs" :> ListRef(ClassApplyData, "_log_data"))
    @@ ("inner-txns" :> ListRef(ClassApplyData, "_inner_txns"))
    @@ ("txn" :> PyNone)

\* an apply-data object is always true, so no field takes its else branch
pending_transaction_responce(objects, self) ==
    ("asset-index" :> PyInt(objects[ApplyDataOf(self)]._tx_config_asset))
    @@ ("application-index" :> PyInt(objects[ApplyDataOf(self)]._tx_application_id))
    @@ ("close-rewards" :> PyInt(0)) @@ ("closing-amount" :> PyInt(0))
    @@ ("asset-closing-amount" :> PyInt(0)) @@ ("confirmed-round" :> PyInt(1))
    @@ ("receiver-rewards" :> PyInt(0)) @@ ("sender-rewards" :> PyInt(0))
    @@ ("local-state-delta" :> PyNone) @@ ("global-state-delta" :> PyNone)
    @@ ("logs" :> ListRef(ApplyDataOf(self), "_log_data"))
    @@ ("inner-txns" :> ListRef(ApplyDataOf(self), "_inner_txns"))
    @@ ("txn" :> PyNone)

\* the bounds of the apply-data model: transactions created, entries the caller
\* appends to the lists of the responses
MaxTxns == 2

MaxAppended == 1

\* the entries in all the lists of the heap
RECURSIVE Appended(_, _)
Appended(objects, ids) ==
    IF ids = {} THEN 0
    ELSE LET id == CHOOSE x \in ids : TRUE
         IN  Len(objects[id]._log_data) + Len(objects[id]._inner_txns)
             + Appended(objects, ids \ {id})

\* the class attribute's object: KAVMApplyData()
InitialHeap == ClassApplyData :> KAVMApplyData(PyNone, PyNone, 0, 0, 0, PyNone)

\* the dictionaries handed to sanitize_byte_fields
PublicKeys == {[i \in 1..32 |-> i], [i \in 1..32 |-> 255 - i]}

Notes == {PyBytes(<<>>), PyBytes(<<104, 105>>), PyBytes(<<1, 2, 3, 255>>)}

TxnDicts ==
    {("snd" :> PyBytes(snd)) @@ ("fee" :> PyInt(fee)) @@ ("type" :> PyStr(PAYMENT_TXN))
     @@ Opt("rcv", rcv) @@ Opt("close", close) @@ Opt("rekey", rekey)
     @@ Opt("arcv", arcv) @@ Opt("note", note) @@ Opt("apar", apar) :
        snd \in PublicKeys, fee \in IntVals,
        rcv \in {Absent} \cup {PyBytes(k) : k \in PublicKeys},
        close \in {Absent, PyBytes([i \in 1..32 |-> i])},
        rekey \in {Absent, PyBytes([i \in 1..32 |-> i])},
        arcv \in {Absent, PyBytes([i \in 1..32 |-> 255 - i])},
        note \in {Absent} \cup Notes,
        apar \in {Absent, [py |-> "dict", v |-> "m" :> PyBytes([i \in 1..32 |-> i])]}}

(***************************************************************************)
(* The toolchain driver (kompile.py).  A command is a sequence of          *)
(* arguments; an argument, a path or a name is a string, kept as the       *)
(* sequence of its pieces, white space always a piece of its own.          *)
(***************************************************************************)
Arg(s) == <<s>>

\* definition_dir / name
PathJoin(dir, name) == dir \o <<"/", name>>

\* Path.resolve(): the path made absolute
Resolve(path) == <<"/", "cwd", "/">> \o path

\* sep.join(l)
RECURSIVE Join(_, _)
Join(sep, l) ==
    IF Len(l) = 0 THEN <<>>
    ELSE IF Len(l) = 1 THEN l[1]
    ELSE l[1] \o sep \o Join(sep, Tail(l))

\* [str(arg) for include in includes for arg in ['-I', include]]
RECURSIVE IncludeArgs(_)
IncludeArgs(includes) ==
    IF Len(includes) = 0 THEN <<>>
    ELSE <<Arg("-I"), includes[1]>> \o IncludeArgs(Tail(includes))

\* args if cond else []
When(cond, args) == IF cond THEN args ELSE <<>>

\* KAVM.concrete_rules()
concrete_rules == <<Arg("TEAL-TYPES.getAppAddressBytes"), Arg("AVM-TXN-DECONSTRUCT.getTxnField")>>

\* the command of _kompile_partial
kompile_partial_command(o) ==
    <<Arg("kompile"), Arg("--output-definition"), o.definition_dir, o.main_file>>
    \o <<Arg("--verbose")>>
    \o <<Arg("--emit-json")>>
    \o When(Truthy(o.gen_bison_parser), <<Arg("--gen-glr-bison-parser")>>)
    \o When(Truthy(o.main_module_name), <<Arg("--main-module"), o.main_module_name.v>>)
    \o When(Truthy(o.syntax_module_name), <<Arg("--syntax-module"), o.syntax_module_name.v>>)
    \o When(Truthy(o.includes), IncludeArgs(o.includes.v))
    \o When(Truthy(o.md_selector), <<Arg("--md-selector"), o.md_selector.v>>)
    \o When(Truthy(o.hook_namespaces),
            <<Arg("--hook-namespaces"), Join(Arg(" "), o.hook_namespaces.v)>>)
    \o <<Arg("-ccopt"), Arg("-c"), Arg("-ccopt"), Arg("-o"), Arg("-ccopt"),
         PathJoin(o.definition_dir, "partial.o")>>
    \o When(Truthy(o.coverage), <<Arg("--coverage")>>)

\* the command of _llvm_kompile
llvm_kompile_command(o) ==
    <<Arg("llvm-kompile"), Resolve(PathJoin(o.definition_dir, "partial.o")),
      Arg("main"), Arg("--")>>
    \o When(Truthy(o.hook_cpp_files), o.hook_cpp_files.v)
    \o <<Arg("-o"), Resolve(PathJoin(o.definition_dir, "interpreter"))>>
    \o When(Truthy(o.hook_clang_flags),
            [i \in 1..Len(o.hook_clang_flags.v) |-> Strip(o.hook_clang_flags.v[i], " ")])

\* the command of kompile_haskell
kompile_haskell_command(o) ==
    <<Arg("kompile"), Arg("--output-definition"), o.definition_dir, o.main_file>>
    \o When(Truthy(o.verbose), <<Arg("--verbose")>>)
    \o When(Truthy(o.emit_json), <<Arg("--emit-json")>>)
    \o When(Truthy(o.backend), <<Arg("--backend"), o.backend.v>>)
    \o When(Truthy(o.main_module_name), <<Arg("--main-module"), o.main_module_name.v>>)
    \o When(Truthy(o.syntax_module_name), <<Arg("--syntax-module"), o.syntax_module_name.v>>)
    \o When(Truthy(o.md_selector), <<Arg("--md-selector"), o.md_selector.v>>)
    \o When(Truthy(o.hook_namespaces),
            <<Arg("--hook-namespaces"), Join(Arg(" "), o.hook_namespaces.v)>>)
    \o <<Arg("--concrete-rules"), Join(Arg(","), concrete_rules)>>
    \o When(Truthy(o.includes), IncludeArgs(o.includes.v))

\* a process subprocess.run has started and is waiting for
Started(command) == [command |-> command, running |-> TRUE, returncode |-> 0]

Exited(process, returncode) ==
    [command |-> process.command, running |-> FALSE, returncode |-> returncode]

\* subprocess.run(command, check=True, text=True), once the process has exited
subprocess_run_unchecked(returncode) == Ok(returncode)

subprocess_run(returncode) ==
    IF returncode # 0
    THEN Raise("CalledProcessError", <<"returned non-zero exit status">>)
    ELSE Ok(returncode)

\* KAVM(definition_dir)
KAVM(definition_dir) == [definition_dir |-> definition_dir]

\* the options kompile is called with
OutDir == <<".build", "/", "avm">>

MainFile == <<"avm.md">>

ExitCodes == {0, 1}

Backends == {PyStr(Arg("llvm")), PyStr(Arg("haskell")), PyStr(Arg("java")), PyNone}

KompileOptions ==
    [definition_dir : {OutDir},
     main_file : {MainFile},
     includes : {PyNone, PyList(<<>>), PyList(<<Arg("lib")>>),
                 PyList(<<Arg("lib"), <<"lib", "/", "include">>>>)},
     main_module_name : {PyNone, PyStr(<<>>), PyStr(Arg("AVM-EXECUTION"))},
     syntax_module_name : {PyNone, PyStr(Arg("TEAL-PARSER-SYNTAX"))},
     backend : Backends,
     md_selector : {PyNone, PyStr(<<"k", " ", "&", " ", "!", " ", "symbolic">>)},
     verbose : {PyBool(FALSE), PyBool(TRUE)},
     hook_namespaces : {PyNone, PyList(<<Arg("KRYPTO"), Arg("KAVM")>>)},
     hook_cpp_files : {PyNone, PyList(<<Arg("hooks.cpp")>>)},
     hook_clang_flags : {PyNone, PyList(<<<<" ", "-lcrypto", " ">>, Arg("-lssl")>>)},
     coverage : {PyBool(FALSE), PyBool(TRUE)},
     gen_bison_parser : {PyBool(FALSE), PyBool(TRUE)},
     emit_json : {PyBool(FALSE), PyBool(TRUE)}]

NoOptions == [backend |-> PyNone]

(***************************************************************************)
(* The state machine: one call at a time, on inputs drawn from the sets    *)
(* above; a call's arguments and result stay in the state until Return.    *)
(***************************************************************************)
NoTxn == [type |-> PyNone]

NoFactoryCall == [op |-> "none"]

Init ==
    /\ pc = "idle"
    /\ txn = NoTxn
    /\ kterm = NoCall
    /\ parsed = NoCall
    /\ fcall = NoFactoryCall
    /\ fcell = NoCall
    /\ kopts = NoOptions
    /\ kruns = <<>>
    /\ kresult = NoCall
    /\ sdict = EmptyDict
    /\ sresult = EmptyDict
    /\ txns = <<>>
    /\ heap = InitialHeap
    /\ resp = <<>>
    /\ called = 0
    /\ mutated = {}

\* transaction_k_term(kavm, t, txid)
CallTransactionKTerm ==
    /\ pc = "idle"
    /\ \E t \in Txns, txid \in TxIds :
        /\ txn' = t
        /\ kterm' = transaction_k_term(t, txid)
    /\ pc' = "to_term"
    /\ UNCHANGED <<parsed, fcall, fcell, kopts, kruns, kresult, sanitizeVars, applyVars>>

\* KAVMTransaction.from_k_cell on the term transaction_k_term returned
CallFromKCell ==
    /\ pc = "to_term"
    /\ IsOk(kterm)
    /\ parsed' = from_k_cell(kterm.val)
    /\ pc' = "from_term"
    /\ UNCHANGED <<txn, kterm, fcall, fcell, kopts, kruns, kresult, sanitizeVars, applyVars>>

\* KAVMTransaction.from_k_cell on a term of the engine
CallFromKCellEngine ==
    /\ pc = "idle"
    /\ \E term \in EngineTerms :
        /\ kterm' = Ok(term)
        /\ parsed' = from_k_cell(term)
    /\ pc' = "from_engine_term"
    /\ UNCHANGED <<txn, fcall, fcell, kopts, kruns, kresult, sanitizeVars, applyVars>>

\* KAVMTermFactory.asset_cell(sdk_asset_dict, symbolic_fields_subst)
CallAssetCell ==
    /\ pc = "idle"
    /\ \E d \in AssetRecords, o \in AssetOverrides :
        /\ fcall' = [op |-> "asset_cell", record |-> d, overrides |-> o]
        /\ fcell' = asset_cell(d, o)
    /\ pc' = "factory"
    /\ UNCHANGED <<txn, kterm, parsed, kopts, kruns, kresult, sanitizeVars, applyVars>>

\* KAVMTermFactory.opt_in_asset_cell(sdk_asset_holding, symbolic_fields_subst)
CallOptInAssetCell ==
    /\ pc = "idle"
    /\ \E d \in AssetHoldings, o \in OptInAssetOverrides :
        /\ fcall' = [op |-> "opt_in_asset_cell", record |-> d, overrides |-> o]
        /\ fcell' = opt_in_asset_cell(d, o)
    /\ pc' = "factory"
    /\ UNCHANGED <<txn, kterm, parsed, kopts, kruns, kresult, sanitizeVars, applyVars>>

\* KAVMTermFactory.app_cell(sdk_app_dict, teal_sources_dir, symbolic_fields_subst)
CallAppCell ==
    /\ pc = "idle"
    /\ \E d \in AppRecords, o \in AppOverrides :
        /\ fcall' = [op |-> "app_cell", record |-> d, overrides |-> o]
        /\ fcell' = app_cell(d, o)
    /\ pc' = "factory"
    /\ UNCHANGED <<txn, kterm, parsed, kopts, kruns, kresult, sanitizeVars, applyVars>>

\* KAVMTermFactory.opt_in_app_cell(sdk_app_local_state, symbolic_fields_subst)
CallOptInAppCell ==
    /\ pc = "idle"
    /\ \E d \in {[id |-> PyInt(n)] : n \in IntVals}, o \in {PyNone, EmptySubst} :
        /\ fcall' = [op |-> "opt_in_app_cell", record |-> d, overrides |-> o]
        /\ fcell' = opt_in_app_cell(d, o)
    /\ pc' = "factory"
    /\ UNCHANGED <<txn, kterm, parsed, kopts, kruns, kresult, sanitizeVars, applyVars>>

\* KAVMTermFactory.account_cell(sdk_account_dict, teal_sources_dir,
\* symbolic_fields_subst)
CallAccountCell ==
    /\ pc = "idle"
    /\ \E d \in AccountRecords, o \in AccountOverrides :
        /\ fcall' = [op |-> "account_cell", record |-> d, overrides |-> o]
        /\ fcell' = account_cell(d, o)
    /\ pc' = "factory"
    /\ UNCHANGED <<txn, kterm, parsed, kopts, kruns, kresult, sanitizeVars, applyVars>>

\* kompile(definition_dir, main_file, ...) is called
CallKompile ==
    /\ pc = "idle"
    /\ \E o \in KompileOptions : kopts' = o
    /\ pc' = "kompile"
    /\ UNCHANGED <<txn, kterm, parsed, fcall, fcell, kruns, kresult, sanitizeVars, applyVars>>

\* generate_interpreter: _kompile_partial starts its process
StartKompilePartial ==
    /\ pc = "kompile"
    /\ kopts.backend = PyStr(Arg("llvm"))
    /\ kruns' = Append(kruns, Started(kompile_partial_command(kopts)))
    /\ pc' = "kompile_partial"
    /\ UNCHANGED <<txn, kterm, parsed, fcall, fcell, kopts, kresult, sanitizeVars, applyVars>>

\* the kompile process exits: subprocess.run returns, or raises and the raise
\* leaves kompile
ExitKompilePartial ==
    /\ pc = "kompile_partial"
    /\ \E returncode \in ExitCodes :
        /\ kruns' = [kruns EXCEPT ![Len(kruns)] = Exited(@, returncode)]
        /\ IF IsOk(subprocess_run(returncode))
           THEN pc' = "partial_done" /\ kresult' = kresult
           ELSE pc' = "kompile_done" /\ kresult' = subprocess_run(returncode)
    /\ UNCHANGED <<txn, kterm, parsed, fcall, fcell, kopts, sanitizeVars, applyVars>>

\* generate_interpreter: _llvm_kompile starts its process
StartLlvmKompile ==
    /\ pc = "partial_done"
    /\ kruns' = Append(kruns, Started(llvm_kompile_command(kopts)))
    /\ pc' = "llvm_kompile"
    /\ UNCHANGED <<txn, kterm, parsed, fcall, fcell, kopts, kresult, sanitizeVars, applyVars>>

\* the llvm-kompile process exits
ExitLlvmKompile ==
    /\ pc = "llvm_kompile"
    /\ \E returncode \in ExitCodes :
        /\ kruns' = [kruns EXCEPT ![Len(kruns)] = Exited(@, returncode)]
        /\ IF IsOk(subprocess_run(returncode))
           THEN pc' = "compiled" /\ kresult' = kresult
           ELSE pc' = "kompile_done" /\ kresult' = subprocess_run(returncode)
    /\ UNCHANGED <<txn, kterm, parsed, fcall, fcell, kopts, sanitizeVars, applyVars>>

\* kompile_haskell starts its process
StartKompileHaskell ==
    /\ pc = "kompile"
    /\ kopts.backend = PyStr(Arg("haskell"))
    /\ kruns' = Append(kruns, Started(kompile_haskell_command(kopts)))
    /\ pc' = "kompile_haskell"
    /\ UNCHANGED <<txn, kterm, parsed, fcall, fcell, kopts, kresult, sanitizeVars, applyVars>>

\* the kompile process of kompile_haskell exits
ExitKompileHaskell ==
    /\ pc = "kompile_haskell"
    /\ \E returncode \in ExitCodes :
        /\ kruns' = [kruns EXCEPT ![Len(kruns)] = Exited(@, returncode)]
        /\ IF IsOk(subprocess_run(returncode))
           THEN pc' = "compiled" /\ kresult' = kresult
           ELSE pc' = "kompile_done" /\ kresult' = subprocess_run(returncode)
    /\ UNCHANGED <<txn, kterm, parsed, fcall, fcell, kopts, sanitizeVars, applyVars>>

\* return KAVM(definition_dir): after the backend's branch, or at once when the
\* backend is neither 'llvm' nor 'haskell'
ReturnKAVM ==
    /\ \/ pc = "compiled"
       \/ /\ pc = "kompile"
          /\ kopts.backend \notin {PyStr(Arg("llvm")), PyStr(Arg("haskell"))}
    /\ kresult' = Ok(KAVM(kopts.definition_dir))
    /\ pc' = "kompile_done"
    /\ UNCHANGED <<txn, kterm, parsed, fcall, fcell, kopts, kruns, sanitizeVars, applyVars>>

\* KAVMTransaction.sanitize_byte_fields(txn_dict)
CallSanitizeByteFields ==
    /\ pc = "idle"
    /\ \E d \in TxnDicts :
        /\ sdict' = d
        /\ sresult' = sanitize_byte_fields(d)
    /\ pc' = "sanitized"
    /\ UNCHANGED <<txn, kterm, parsed, fcall, fcell, kopts, kruns, kresult, applyVars>>

\* a KAVMTransaction object is created: it has no _apply_data of its own
CreateTransaction ==
    /\ pc \in {"idle", "txns", "responded"}
    /\ Len(txns) < MaxTxns
    /\ txns' = Append(txns, KAVMTransaction(FALSE, ClassApplyData))
    /\ pc' = "txns"
    /\ called' = 0
    /\ UNCHANGED <<txn, kterm, parsed, fcall, fcell, kopts, kruns, kresult, sanitizeVars,
                   heap, resp, mutated>>

\* apply-data is attached to a transaction: t._apply_data = KAVMApplyData(...)
AttachApplyData ==
    /\ pc \in {"txns", "responded"}
    /\ \E i \in 1..Len(txns) :
        /\ ~txns[i].has_apply_data
        /\ heap' = (i :> KAVMApplyData(PyNone, PyNone, 10, 11, 0, PyNone)) @@ heap
        /\ txns' = [txns EXCEPT ![i] = KAVMTransaction(TRUE, i)]
    /\ pc' = "txns"
    /\ called' = 0
    /\ UNCHANGED <<txn, kterm, parsed, fcall, fcell, kopts, kruns, kresult, sanitizeVars,
                   resp, mutated>>

\* t.pending_transaction_responce()
CallPendingTransactionResponce ==
    /\ pc \in {"txns", "responded"}
    /\ \E i \in 1..Len(txns) :
        /\ resp' = (i :> pending_transaction_responce(heap, txns[i])) @@ resp
        /\ called' = i
    /\ pc' = "responded"
    /\ UNCHANGED <<txn, kterm, parsed, fcall, fcell, kopts, kruns, kresult, sanitizeVars,
                   txns, heap, mutated>>

\* the caller appends an entry to the logs or inner-txns list of a response
MutateResponseList ==
    /\ pc \in {"txns", "responded"}
    /\ Appended(heap, DOMAIN heap) < MaxAppended
    /\ \E i \in DOMAIN resp, key \in {"logs", "inner-txns"} :
        /\ heap' = [heap EXCEPT ![resp[i][key].obj][resp[i][key].attr] = Append(@, "entry")]
        /\ mutated' = mutated \cup {i}
    /\ pc' = "txns"
    /\ called' = 0
    /\ UNCHANGED <<txn, kterm, parsed, fcall, fcell, kopts, kruns, kresult, sanitizeVars,
                   txns, resp>>

Return ==
    /\ pc \in {"to_term", "from_term", "from_engine_term", "factory", "kompile_done",
              "sanitized", "txns", "responded"}
    /\ pc' = "idle"
    /\ txn' = NoTxn
    /\ kterm' = NoCall
    /\ parsed' = NoCall
    /\ fcall' = NoFactoryCall
    /\ fcell' = NoCall
    /\ kopts' = NoOptions
    /\ kruns' = <<>>
    /\ kresult' = NoCall
    /\ sdict' = EmptyDict
    /\ sresult' = EmptyDict
    /\ txns' = <<>>
    /\ heap' = InitialHeap
    /\ resp' = <<>>
    /\ called' = 0
    /\ mutated' = {}

Next ==
    \/ CallTransactionKTerm
    \/ CallFromKCell
    \/ CallFromKCellEngine
    \/ CallAssetCell
    \/ CallOptInAssetCell
    \/ CallAppCell
    \/ CallOptInAppCell
    \/ CallAccountCell
    \/ CallKompile
    \/ StartKompilePartial
    \/ ExitKompilePartial
    \/ StartLlvmKompile
    \/ ExitLlvmKompile
    \/ StartKompileHaskell
    \/ ExitKompileHaskell
    \/ ReturnKAVM
    \/ CallSanitizeByteFields
    \/ CreateTransaction
    \/ AttachApplyData
    \/ CallPendingTransactionResponce
    \/ MutateResponseList
    \/ Return

Spec == Init /\ [][Next]_vars

(***************************************************************************)
(* Properties of the transaction adaptor.                                  *)
(***************************************************************************)
Supported(t) == t.type.v \in {PAYMENT_TXN, APPCALL_TXN}

\* the scalar fields of a transaction in normal form: an absent schema counts
\* zero slots, an absent program is the empty program, an absent on-completion
\* or extra-pages is 0
OrZero(value) == IF value.py = "None" THEN 0 ELSE value.v

OrEmpty(value) == IF value.py = "None" THEN <<>> ELSE value.v

SchemaCounters(schema) ==
    IF schema.py = "None" THEN <<0, 0>>
    ELSE <<schema.num_uints, schema.num_byte_slices>>

HeaderScalars(t) ==
    <<t.type, t.sender, t.fee, t.first_valid_round, t.last_valid_round>>

PaymentScalars(t) == <<t.receiver, t.amt, t.close_remainder_to>>

AppCallScalars(t) ==
    <<t.index, OrZero(t.on_complete), SchemaCounters(t.local_schema),
      SchemaCounters(t.global_schema), OrZero(t.extra_pages),
      OrEmpty(t.approval_program), OrEmpty(t.clear_program)>>

VariantScalars(t) ==
    IF t.type.v = PAYMENT_TXN THEN PaymentScalars(t) ELSE AppCallScalars(t)

\* C1: from_k_cell(transaction_k_term(t, id)) is, for every payment and every
\* application call t, a transaction of t's variant with t's sender, fee,
\* first-valid and last-valid round and t's variant-specific scalar fields.
C1_RoundTripKeepsScalars ==
    (pc = "from_term" /\ Supported(txn)) =>
        /\ IsOk(parsed)
        /\ HeaderScalars(parsed.val) = HeaderScalars(txn)
        /\ VariantScalars(parsed.val) = VariantScalars(txn)

\* C3: transaction_k_term raises and returns no term for every transaction whose
\* type is neither payment nor application call; an asset transfer raises
\* NotImplementedError.
C3_UnsupportedTypeRaises ==
    (pc = "to_term" /\ ~Supported(txn)) =>
        /\ kterm.exc \in {"ValueError", "NotImplementedError"}
        /\ "val" \notin DOMAIN kterm
        /\ txn.type.v = ASSETTRANSFER_TXN => kterm.exc = "NotImplementedError"

C3_Witness ==
    /\ pc = "to_term"
    /\ txn.type.v = ASSETTRANSFER_TXN
    /\ kterm.exc = "NotImplementedError"

\* the quote-stripped type tag of the term from_k_cell was called on
TypeTag == Strip(kterm.val["TXTYPE_CELL"].token, QUOTE)

\* C4: from_k_cell on a term whose quote-stripped type tag is none of payment,
\* asset transfer and application call raises the unexpected-type ValueError and
\* returns no transaction.
C4_UnexpectedTypeRaises ==
    (/\ pc \in {"from_term", "from_engine_term"}
     /\ TypeTag \notin {PAYMENT_TXN, ASSETTRANSFER_TXN, APPCALL_TXN}) =>
        /\ parsed.exc = "ValueError"
        /\ parsed.msg = "Cannot instantiate a Transaction of an unexpected type"
        /\ "val" \notin DOMAIN parsed

C4_Witness ==
    /\ pc = "from_engine_term"
    /\ TypeTag = KEYREG_TXN
    /\ parsed.exc = "ValueError"

\* C5: the term transaction_k_term returns for a payment or an application call
\* holds a concrete value in every cell of the transaction template.
C5_NoPlaceholderLeft ==
    (pc = "to_term" /\ Supported(txn)) =>
        /\ IsOk(kterm)
        /\ DOMAIN kterm.val = TransactionCells
        /\ \A c \in TransactionCells : IsConcrete(kterm.val[c])

C5_Witness ==
    /\ pc = "to_term"
    /\ txn.type.v = PAYMENT_TXN
    /\ IsOk(kterm)
    /\ kterm.val["XFERASSET_CELL"] = NoTValue
    /\ kterm.val["APPLICATIONARGS_CELL"] = tvalue_list(<<>>)

(***************************************************************************)
(* Properties of the term factory.                                         *)
(***************************************************************************)
Built(op) == pc = "factory" /\ fcall.op = op

\* the record-derived substitution of the call, None when building it raises
RecordSubst ==
    LET r == IF fcall.op = "asset_cell" THEN asset_sdk_fields_subst(fcall.record)
             ELSE IF fcall.op = "opt_in_asset_cell"
                  THEN opt_in_asset_sdk_fields_subst(fcall.record)
             ELSE IF fcall.op = "app_cell" THEN app_sdk_fields_subst(fcall.record)
             ELSE account_sdk_fields_subst(fcall.record)
    IN  IF IsOk(r) THEN r.val ELSE EmptySubst

Overrides == OrEmptySubst(fcall.overrides)

\* C2: in the term asset_cell, opt_in_asset_cell, app_cell or account_cell builds,
\* a field holds the caller's override if the overrides define it, otherwise the
\* record-derived value if the record-derived substitution defines it, otherwise
\* the template default (the account template is the one whose defaults are kept).
C2_LaterStageWins ==
    (/\ pc = "factory"
     /\ fcall.op \in {"asset_cell", "opt_in_asset_cell", "app_cell", "account_cell"}
     /\ IsOk(fcell)) =>
        \A f \in DOMAIN fcell.val :
            IF f \in DOMAIN Overrides THEN fcell.val[f] = Overrides[f]
            ELSE IF f \in DOMAIN RecordSubst THEN fcell.val[f] = RecordSubst[f]
            ELSE /\ fcall.op = "account_cell"
                 /\ f \in DOMAIN default_fields_subst
                 /\ fcell.val[f] = default_fields_subst[f]

C2_Witness ==
    /\ Built("asset_cell")
    /\ IsOk(fcell)
    /\ fcall.record["params"]["total"] = PyInt(10)
    /\ fcell.val["ASSETTOTAL_CELL"] = KVariable("TOTAL")
    /\ fcell.val["ASSETID_CELL"] = intToken(fcall.record["index"].v)

\* a program of an application record that cannot be located or parsed
ProgramFails(d, key) ==
    \/ key \notin DOMAIN d["params"]
    \/ d["params"][key].v \notin DOMAIN TealSourcesDir

ProgramsReadable(d) ==
    ~ProgramFails(d, "approval-program") /\ ~ProgramFails(d, "clear-state-program")

\* an account record whose nested collections all build
CollectionsBuild(d) ==
    /\ \A i \in 1..Len(d["created-apps"]) : ProgramsReadable(d["created-apps"][i])
    /\ "apps-local-state" \in DOMAIN d => Len(d["apps-local-state"]) = 0

\* the optional numeric fields of an application record, with their cells
AppOptionalNumbers ==
    {<<"global-state-schema", "num-uint", "GLOBALNUMINTS_CELL">>,
     <<"global-state-schema", "num-byte-slice", "GLOBALNUMBYTES_CELL">>,
     <<"local-state-schema", "num-uint", "LOCALNUMINTS_CELL">>,
     <<"local-state-schema", "num-byte-slice", "LOCALNUMBYTES_CELL">>}

AppNumberMissing(d, x) ==
    x[1] \notin DOMAIN d["params"] \/ x[2] \notin DOMAIN d["params"][x[1]]

\* the optional numeric fields of an account record, with their cells
AccountOptionalNumbers ==
    {<<"pending-rewards", "PREREWARDS_CELL">>, <<"rewards", "REWARDS_CELL">>,
     <<"status", "STATUS_CELL">>}

ZeroOrDefault(cell) == {intToken(0)} \cup
    (IF cell \in DOMAIN default_fields_subst THEN {default_fields_subst[cell]} ELSE {})

\* C6 for app_cell: a missing schema counter or extra-pages still gives a term,
\* with zero in the field.
C6_AppMissingNumberIsZero ==
    (Built("app_cell") /\ ProgramsReadable(fcall.record)) =>
        /\ IsOk(fcell)
        /\ \A x \in AppOptionalNumbers :
            (AppNumberMissing(fcall.record, x) /\ x[3] \notin DOMAIN Overrides) =>
                fcell.val[x[3]] = intToken(0)
        /\ ("extra-pages" \notin DOMAIN fcall.record["params"]
            /\ "EXTRAPAGES_CELL" \notin DOMAIN Overrides) =>
                fcell.val["EXTRAPAGES_CELL"] = intToken(0)

\* C6 for account_cell: a missing pending-rewards, rewards or status still gives
\* a term, with zero or the template default in the field.
C6_AccountMissingNumberIsDefault ==
    (/\ Built("account_cell")
     /\ CollectionsBuild(fcall.record)
     /\ {"round", "auth-addr"} \subseteq DOMAIN fcall.record) =>
        \A x \in AccountOptionalNumbers :
            x[1] \notin DOMAIN fcall.record =>
                /\ IsOk(fcell)
                /\ fcell.val[x[2]] \in ZeroOrDefault(x[2])

\* C6: when an optional numeric field is missing from the record, app_cell and
\* account_cell still return a term, and the field holds zero or the template
\* default.
C6_MissingNumberResolves == C6_AppMissingNumberIsZero /\ C6_AccountMissingNumberIsDefault

\* the exception a failing program of the record raises: the approval program is
\* read first
ProgramException(d) ==
    LET key == IF ProgramFails(d, "approval-program") THEN "approval-program"
               ELSE "clear-state-program"
    IN  IF key \notin DOMAIN d["params"] THEN "KeyError" ELSE "ParseTealError"

FirstFailingApp(apps) ==
    apps[CHOOSE i \in 1..Len(apps) :
            /\ ~ProgramsReadable(apps[i])
            /\ \A j \in 1..(i - 1) : ProgramsReadable(apps[j])]

\* C7: when a program of the record cannot be located or parsed, app_cell raises
\* that exception and returns no term; account_cell on a record with such a
\* created application returns no term either, and raises the application's
\* exception when the record's own fields could all be read.
C7_ProgramFailureRaises ==
    /\ (Built("app_cell") /\ ~ProgramsReadable(fcall.record)) =>
            /\ fcell.exc = ProgramException(fcall.record)
            /\ "val" \notin DOMAIN fcell
    /\ (/\ Built("account_cell")
        /\ \E i \in 1..Len(fcall.record["created-apps"]) :
                ~ProgramsReadable(fcall.record["created-apps"][i])) =>
            /\ ~IsOk(fcell)
            /\ "val" \notin DOMAIN fcell
            /\ {"round", "pending-rewards", "rewards", "status", "auth-addr"}
                    \subseteq DOMAIN fcall.record =>
                fcell.exc = ProgramException(FirstFailingApp(fcall.record["created-apps"]))

C7_Witness ==
    /\ Built("account_cell")
    /\ Len(fcall.record["created-apps"]) = 2
    /\ ~ProgramsReadable(fcall.record["created-apps"][2])
    /\ fcell.exc = "ParseTealError"

\* the text of a token between its quotes, the number a token spells, the
\* address inside a Bytes token
Unquoted(t) == Strip(t.token, QUOTE)

NumberOf(t) == StrToInt(t.token)

AddressOf(t) == SubSeq(t.token, 3, Len(t.token) - 1)

AssetRoundTrip(d, m) ==
    /\ NumberOf(m["ASSETID_CELL"]) = d["index"].v
    /\ Unquoted(m["ASSETNAME_CELL"]) = d["params"]["name"].v
    /\ Unquoted(m["ASSETUNITNAME_CELL"]) = d["params"]["unit-name"].v
    /\ NumberOf(m["ASSETTOTAL_CELL"]) = d["params"]["total"].v
    /\ NumberOf(m["ASSETDECIMALS_CELL"]) = d["params"]["decimals"].v
    /\ (NumberOf(m["ASSETDEFAULTFROZEN_CELL"]) = 1) = d["params"]["default-frozen"].v
    /\ Unquoted(m["ASSETURL_CELL"]) = d["params"]["url"].v
    /\ Unquoted(m["ASSETMETADATAHASH_CELL"]) = d["params"]["metadata-hash"].v
    /\ AddressOf(m["ASSETMANAGERADDR_CELL"]) = d["params"]["manager"].v
    /\ AddressOf(m["ASSETRESERVEADDR_CELL"]) = d["params"]["reserve"].v
    /\ AddressOf(m["ASSETFREEZEADDR_CELL"]) = d["params"]["freeze"].v
    /\ AddressOf(m["ASSETCLAWBACKADDR_CELL"]) = d["params"]["clawback"].v

AppRoundTrip(d, m) ==
    /\ NumberOf(m["APPID_CELL"]) = d["id"].v
    /\ Unquoted(m["APPROVALPGM_CELL"]) = d["params"]["approval-program"].v
    /\ Unquoted(m["CLEARSTATEPGM_CELL"]) = d["params"]["clear-state-program"].v
    /\ \A x \in AppOptionalNumbers :
        ~AppNumberMissing(d, x) => NumberOf(m[x[3]]) = d["params"][x[1]][x[2]].v
    /\ "extra-pages" \in DOMAIN d["params"] =>
        NumberOf(m["EXTRAPAGES_CELL"]) = d["params"]["extra-pages"].v

\* the numeric fields of an account record, with their cells
AccountNumbers ==
    {<<"amount", "BALANCE_CELL">>, <<"min-balance", "MINBALANCE_CELL">>,
     <<"round", "ROUND_CELL">>} \cup AccountOptionalNumbers

AccountRoundTrip(d, m) ==
    /\ AddressOf(m["ADDRESS_CELL"]) = d["address"].v
    /\ \A x \in AccountNumbers : x[1] \in DOMAIN d => NumberOf(m[x[2]]) = d[x[1]].v
    /\ ("auth-addr" \in DOMAIN d /\ Truthy(d["auth-addr"])) =>
        AddressOf(m["KEY_CELL"]) = d["auth-addr"].v

\* C10: for every supported account, application and asset record, the term is
\* built, and the flat field mapping extracted from it holds, for every schema
\* field present in the record, the record's value (0 and false included).
C10_RecordRoundTrip ==
    (pc = "factory" /\ fcall.overrides = PyNone) =>
        /\ Built("asset_cell") =>
            IsOk(fcell) /\ AssetRoundTrip(fcall.record, SplitConfigFrom(fcell.val))
        /\ (Built("app_cell") /\ ProgramsReadable(fcall.record)) =>
            IsOk(fcell) /\ AppRoundTrip(fcall.record, SplitConfigFrom(fcell.val))
        /\ (/\ Built("account_cell")
            /\ CollectionsBuild(fcall.record)
            /\ {"round", "auth-addr"} \subseteq DOMAIN fcall.record) =>
            IsOk(fcell) /\ AccountRoundTrip(fcall.record, SplitConfigFrom(fcell.val))

(***************************************************************************)
(* Properties of the toolchain driver.                                     *)
(***************************************************************************)
Llvm == kopts.backend = PyStr(Arg("llvm"))

\* the started processes whose command is the tool
RunsOf(tool) == {i \in 1..Len(kruns) : kruns[i].command[1] = Arg(tool)}

Failed(i) == ~kruns[i].running /\ kruns[i].returncode # 0

Succeeded(i) == ~kruns[i].running /\ kruns[i].returncode = 0

\* C8: with the llvm backend, llvm-kompile is started only after kompile has
\* exited with code zero, and once either process has exited with a non-zero
\* code kompile raises and returns no executor handle.
C8_StagesInOrderAndFailureRaises ==
    Llvm =>
        /\ \A i \in RunsOf("llvm-kompile") :
            i = 2 /\ kruns[1].command[1] = Arg("kompile") /\ Succeeded(1)
        /\ (\E i \in 1..Len(kruns) : Failed(i)) =>
            /\ pc = "kompile_done"
            /\ kresult.exc = "CalledProcessError"
            /\ "val" \notin DOMAIN kresult
        /\ IsOk(kresult) => \A i \in 1..Len(kruns) : Succeeded(i)

C8_Witness ==
    /\ Llvm
    /\ Len(kruns) = 2
    /\ Succeeded(1)
    /\ Failed(2)
    /\ kresult.exc = "CalledProcessError"

\* the arguments of a command that are flags of the toolchain
Flags ==
    {Arg(f) : f \in {"--verbose", "--emit-json", "--gen-glr-bison-parser",
                     "--main-module", "--syntax-module", "-I", "--md-selector",
                     "--hook-namespaces", "--coverage", "--backend",
                     "--concrete-rules"}}

FlagsIn(command) == {command[i] : i \in 1..Len(command)} \cap Flags

Positions(command, flag) == {i \in 1..Len(command) : command[i] = flag}

\* the option's flag is in the command once, followed by value, when the option
\* is set, and absent when it is not
FlagWithValue(command, flag, option, value) ==
    IF Truthy(option)
    THEN \E i \in 1..(Len(command) - 1) :
            Positions(command, Arg(flag)) = {i} /\ command[i + 1] = value
    ELSE Positions(command, Arg(flag)) = {}

Switch(command, flag, option) == (Arg(flag) \in FlagsIn(command)) <=> Truthy(option)

IncludesOf(o) == IF Truthy(o.includes) THEN o.includes.v ELSE <<>>

\* the -I flags of the command: one per include, each followed by its path
IncludeFlags(command, includes) ==
    \E first \in 0..Len(command) :
        /\ Positions(command, Arg("-I")) = {first + 2 * k - 1 : k \in 1..Len(includes)}
        /\ \A k \in 1..Len(includes) : command[first + 2 * k] = includes[k]

\* the stage-1 flags that follow their options in the code
C9_Stage1OptionalFlags ==
    (Llvm /\ Len(kruns) >= 1) =>
        LET command == kruns[1].command IN
        /\ Switch(command, "--gen-glr-bison-parser", kopts.gen_bison_parser)
        /\ Switch(command, "--coverage", kopts.coverage)
        /\ FlagWithValue(command, "--main-module", kopts.main_module_name,
                         kopts.main_module_name.v)
        /\ FlagWithValue(command, "--syntax-module", kopts.syntax_module_name,
                         kopts.syntax_module_name.v)
        /\ FlagWithValue(command, "--md-selector", kopts.md_selector, kopts.md_selector.v)
        /\ FlagWithValue(command, "--hook-namespaces", kopts.hook_namespaces,
                         <<"KRYPTO", " ", "KAVM">>)
        /\ IncludeFlags(command, IncludesOf(kopts))
        /\ FlagsIn(command) \cap {Arg("--backend"), Arg("--concrete-rules")} = {}

\* stage 2 carries no flag of stage 1, and is the object file, main, the hook
\* sources, the executable and the native-compiler flags
C9_Stage2Arguments ==
    (Llvm /\ Len(kruns) >= 2) =>
        LET command == kruns[2].command
            sources == IF Truthy(kopts.hook_cpp_files) THEN kopts.hook_cpp_files.v ELSE <<>>
            rest    == SubSeq(command, 5 + Len(sources), Len(command))
        IN  /\ FlagsIn(command) = {}
            /\ SubSeq(command, 1, 4) =
                <<Arg("llvm-kompile"), <<"/", "cwd", "/", ".build", "/", "avm", "/", "partial.o">>,
                  Arg("main"), Arg("--")>>
            /\ SubSeq(command, 5, 4 + Len(sources)) = sources
            /\ SubSeq(rest, 1, 2) =
                <<Arg("-o"), <<"/", "cwd", "/", ".build", "/", "avm", "/", "interpreter">>>>
            /\ SubSeq(rest, 3, Len(rest)) =
                (IF Truthy(kopts.hook_clang_flags) THEN <<Arg("-lcrypto"), Arg("-lssl")>> ELSE <<>>)

\* --verbose and --emit-json are in stage 1 exactly when their options are set
C9_Stage1VerboseAndJson ==
    (Llvm /\ Len(kruns) >= 1) =>
        /\ Switch(kruns[1].command, "--verbose", kopts.verbose)
        /\ Switch(kruns[1].command, "--emit-json", kopts.emit_json)

\* C9: with the llvm backend, for every combination of options, the stage-1 and
\* stage-2 argument lists contain exactly the flags the options imply: no -I
\* without includes, --coverage in stage 1 only and only when set, and each of
\* --verbose, --emit-json, the module names, the grammar selector, the hook
\* namespaces and the alternate parser present if and only if its option is set.
C9_FlagsExactlyImplied ==
    C9_Stage1OptionalFlags /\ C9_Stage2Arguments /\ C9_Stage1VerboseAndJson

(***************************************************************************)
(* Further properties of the term factory.                                 *)
(***************************************************************************)
\* the numeric keys account_cell reads from the record
AccountScalarKeys == {"round", "pending-rewards", "rewards", "status"}

\* the address the key field of the record's term is expected to hold
ExpectedKey(d) ==
    IF "auth-addr" \in DOMAIN d /\ Truthy(d["auth-addr"])
    THEN d["auth-addr"].v ELSE d["address"].v

\* the address and the key of the term account_cell returned for the record
AddressAndKeyOf(d) ==
    /\ IsOk(fcell)
    /\ fcell.val["ADDRESS_CELL"].sort = "Bytes"
    /\ AddressOf(fcell.val["ADDRESS_CELL"]) = d["address"].v
    /\ fcell.val["KEY_CELL"].sort = "Bytes"
    /\ AddressOf(fcell.val["KEY_CELL"]) = ExpectedKey(d)

\* C11: account_cell returns a term whose address field is the record's address
\* and whose key field is the record's auth-addr, or, when auth-addr is absent
\* or empty, the record's address.
C11_AddressAndKeySet ==
    (/\ Built("account_cell")
     /\ CollectionsBuild(fcall.record)
     /\ AccountScalarKeys \subseteq DOMAIN fcall.record) =>
        AddressAndKeyOf(fcall.record)

\* the same, on the records that carry the auth-addr key
C11_KeySetWhenAuthAddrPresent ==
    (/\ Built("account_cell")
     /\ CollectionsBuild(fcall.record)
     /\ AccountScalarKeys \cup {"auth-addr"} \subseteq DOMAIN fcall.record) =>
        AddressAndKeyOf(fcall.record)

EmptyBag(sort) == KToken(<<".", "B", "a", "g">>, sort)

\* an account record with no assets, no applications and no apps-local-state,
\* whose own fields can all be read
NoCollections(d) ==
    /\ Len(d["assets"]) = 0
    /\ Len(d["created-apps"]) = 0
    /\ Len(d["created-assets"]) = 0
    /\ "apps-local-state" \notin DOMAIN d
    /\ AccountScalarKeys \cup {"auth-addr"} \subseteq DOMAIN d

ArrayFields ==
    {"ACCOUNTS_CELL", "APPLICATIONARGS_CELL", "FOREIGNAPPS_CELL", "FOREIGNASSETS_CELL"}

ProgramSourceFields == {"APPROVALPROGRAMSRC_CELL", "CLEARSTATEPROGRAMSRC_CELL"}

\* the program 'int 1', which approves whatever it is called with
TrivialProgram == KToken(<<"i", "n", "t", " ", "1">>, "TealInputPgm")

\* the cells the id, header and type-specific substitutions of t set
SetByTransaction(t) == DOMAIN fields_subst(t, <<>>, 0)

\* the value a cell holds when the transaction's fields left it unset
BackfillValue(c) ==
    IF c \in ArrayFields THEN tvalue_list(<<>>)
    ELSE IF c \in ProgramSourceFields THEN TrivialProgram
    ELSE IF c = "LOGDATA_CELL" THEN tvalue_list(<<>>)
    ELSE IF c = "LOGSIZE_CELL" THEN tvalue(PyInt(0))
    ELSE IF c = "TXSCRATCH_CELL" THEN KApply(".Map", <<>>)
    ELSE IF c = "TXNEXECUTIONCONTEXT_CELL" THEN KToken(<<".", "K">>, "K")
    ELSE NoTValue

Backfilled(cells) ==
    (pc = "to_term" /\ Supported(txn)) =>
        /\ IsOk(kterm)
        /\ \A c \in (cells \ SetByTransaction(txn)) : kterm.val[c] = BackfillValue(c)

\* C13: in the term transaction_k_term returns, a cell the id, header and
\* type-specific substitutions left unset holds its backfill value, the same for
\* a payment and an application call: the empty list in the four array fields,
\* the trivial program in both program-source fields, zero or empty in the
\* service fields.
C13_BackfillValues == Backfilled(TransactionCells)

\* the same, the approval program source left aside
C13_BackfillValuesButApprovalSource ==
    Backfilled(TransactionCells \ {"APPROVALPROGRAMSRC_CELL"})

(***************************************************************************)
(* Further properties of the toolchain driver.                             *)
(***************************************************************************)
HandleOnlyAfterCompile(backends) ==
    (kopts.backend \in backends /\ IsOk(kresult)) =>
        /\ Len(kruns) >= 1
        /\ \A i \in 1..Len(kruns) : Succeeded(i)

\* C16: whatever the backend option (llvm, haskell, None, another string),
\* kompile returns an executor handle only after an external compiler process
\* has been run and has exited with code zero.
C16_NoHandleWithoutCompile == HandleOnlyAfterCompile(Backends)

\* the same, for the two backends kompile has a branch for
C16_NoHandleWithoutCompileKnownBackends ==
    HandleOnlyAfterCompile({PyStr(Arg("llvm")), PyStr(Arg("haskell"))})

(***************************************************************************)
(* Properties of sanitize_byte_fields.                                     *)
(***************************************************************************)
\* the fields of a transaction dictionary that hold an address as raw bytes
AddressFields == {"snd", "rcv", "close", "rekey", "arcv"}

\* text is the checksummed address of the key: it decodes to the key followed by
\* the key's checksum
IsAddressOf(text, key) ==
    /\ text.py = "str"
    /\ \A i \in 1..Len(text.v) : \E j \in 1..Len(B32Chars) : text.v[i] = B32Chars[j]
    /\ B32Decode(text.v) = key \o checksum(key)

\* text is base64 that decodes to the bytes
IsBase64Of(text, bytes) ==
    /\ text.py = "str"
    /\ Len(text.v) % 4 = 0
    /\ \A i \in 1..Len(text.v) : \E j \in 1..Len(B64Chars) : text.v[i] \in {B64Chars[j], "="}
    /\ B64Decode(text.v) = bytes

Sanitized(addressFields) ==
    pc = "sanitized" =>
        /\ DOMAIN sresult = DOMAIN sdict
        /\ \A k \in DOMAIN sdict :
            IF sdict[k].py = "bytes"
            THEN IF k \in addressFields
                 THEN IsAddressOf(sresult[k], sdict[k].v)
                 ELSE IsBase64Of(sresult[k], sdict[k].v)
            ELSE sresult[k] = sdict[k]

\* C14: sanitize_byte_fields keeps the field names and the values that are not
\* bytes; a bytes value of an address field becomes the checksummed address of
\* the bytes, a bytes value of any other field base64 text that decodes to it.
C14_SanitizeByteFields == Sanitized(AddressFields)

\* the same, with only snd, rcv and close taken for address fields
C14_SanitizeThreeAddressFields == Sanitized(SanitizedAddressFields)

(***************************************************************************)
(* Properties of the apply-data of transactions.                           *)
(***************************************************************************)
\* C15: pending_transaction_responce reads only the apply-data of its
\* transaction: asset-index and application-index are its configured-asset and
\* created-application ids, logs and inner-txns its log entries and inner
\* transactions, the five reward and closing amounts are 0; the call leaves the
\* transactions and the apply-data as they were.
C15_ResponseFromApplyData ==
    [][pc' = "responded" =>
        LET data == heap[ApplyDataOf(txns[called'])]
            r    == resp'[called']
        IN  /\ r["asset-index"] = PyInt(data._tx_config_asset)
            /\ r["application-index"] = PyInt(data._tx_application_id)
            /\ Deref(heap', r["logs"]) = data._log_data
            /\ Deref(heap', r["inner-txns"]) = data._inner_txns
            /\ \A k \in {"close-rewards", "closing-amount", "asset-closing-amount",
                         "receiver-rewards", "sender-rewards"} : r[k] = PyInt(0)
            /\ txns' = txns
            /\ heap' = heap]_vars

C15_Witness ==
    /\ pc = "responded"
    /\ txns[called].has_apply_data
    /\ resp[called]["asset-index"] = PyInt(10)
    /\ resp[called]["application-index"] = PyInt(11)

\* what the response of a transaction reports now
Reports(i, asset, application, logs, inner) ==
    /\ resp[i]["asset-index"] = PyInt(asset)
    /\ resp[i]["application-index"] = PyInt(application)
    /\ Deref(heap, resp[i]["logs"]) = logs
    /\ Deref(heap, resp[i]["inner-txns"]) = inner

\* C17: whatever transactions were created, asked for a response and had the
\* lists of their responses changed, the response of a transaction that never
\* had apply-data attached, and whose own response nobody changed, reports
\* asset-index 0, application-index 0, no logs and no inner transactions.
C17_ApplyDataNotShared ==
    \A i \in DOMAIN resp :
        (~txns[i].has_apply_data /\ i \notin mutated) => Reports(i, 0, 0, <<>>, <<>>)

\* the same, for the transactions that had their own apply-data attached before
\* the response
C17_AttachedApplyDataNotShared ==
    \A i \in DOMAIN resp :
        (txns[i].has_apply_data /\ resp[i]["logs"].obj = i /\ i \notin mutated) =>
            Reports(i, 10, 11, <<>>, <<>>)

====
